---- MODULE Spec2Model ----
(***************************************************************************)
(* Model of the ticketed audio-session engine of frapp-api:                *)
(*   - the WebSocket ticket issuer and the ticket store                    *)
(*     (src/src/endpoints/websocket-ticket.ts, src/src/store/index.ts),    *)
(*   - the first-message-authentication session handler                    *)
(*     handleSecureAudioSession and its helper handleAudioMessage          *)
(*     (src/src/app/audio-utils.ts),                                       *)
(*   - the RingBuffer used as pre-roll (src/unnamed/part_003).             *)
(*                                                                         *)
(* Time is in milliseconds, as Date.now() is.  websocket.send and          *)
(* websocket.close are logged per connection in the order the code calls   *)
(* them: sent[s] and closes[s] are the server's calls, not what a peer     *)
(* finally receives.                                                       *)
(***************************************************************************)
EXTENDS Integers, Sequences, FiniteSets, TLC

\* ------------------------------------------------------------ bounds
NConn == 2
MaxMsgs == 2
MaxTicks == 2
MaxIssue == 1
MaxAudioMsgs == 4
RingCap == 3
MaxRingOps == 4
MaxSegments == 3
LongSegmentLen == 300
MaxStorMsgs == 6
MaxStorTicks == 5
MaxDirect == 3
MaxAsrMsgs == 4

\* ------------------------------------------------- program constants
KV_EXPIRATION_TTL_S == 300
TICKET_EXPIRES_MS == 60 * 60 * 1000
AUTH_TIMEOUT_MS == 5000
CLEANUP_INTERVAL_MS == 60000
POLICY_VIOLATION == 1008
CHUNK_DURATION_MS == 128
BYTES_PER_MS == 32
WINDOW_SIZE_MS == 2 * 60 * 1000
UPLOAD_INTERVAL_MS == 60 * 1000
MAX_MEMORY_MB == 10
STORAGE_CLEANUP_MS == 30 * 1000
SAMPLE_RATE == 16000
BIT_DEPTH == 16
CHANNELS == 1
BYTES_PER_SAMPLE == 2
WAV_HEADER_BYTES == 44
PREROLL_MAX_BYTES == 256 * BYTES_PER_MS

Conns == 1 .. NConn
\* generateSecureTicket draws 32 random bytes: every issued ticket is a fresh id.
\* Ticket 0 is the missing/empty ticket of an auth message; ticket MaxIssue + 1
\* is never issued (a forged ticket).
TicketIds == 1 .. (MaxIssue + 1)
Users == {"user_42", "user_7"}
NoUser == "null"

VARIABLES
  kvMode,      \* TRUE iff env.WS_TICKETS_KV is bound (TicketStorage.kv)
  now,         \* Date.now()
  ticks,       \* number of clock advances so far (bounds the clock)
  store,       \* ticket id -> stored TicketData, or Absent
  sess,        \* per connection: the closure of handleSecureAudioSession
  audio,       \* per connection: the audio closure variables
  handler,     \* per connection: the invocations of the message listener, in arrival order
  sent,        \* per connection: websocket.send calls, in order
  closes,      \* per connection: websocket.close calls, in order
  archiver,    \* per connection: the OptimizedAudioStorage of the session
  asrCalls,    \* per connection: ASR submissions, in order
  issuedAt,    \* history: ticket id -> instant of issuance, -1 if never
  consumed,    \* history: ticket id -> number of Consume calls that returned a subject
  hist,        \* history per connection: what the client has streamed
  ring,        \* a RingBuffer driven on its own, with what was appended to it
  wav,         \* a call of createOptimizedWavBlob: its segments and its blob
  stor,        \* the OptimizedAudioStorage of connection 1, and its object-store PUTs
  upgrades,    \* per connection: the upgrade request handled for it and the response
  asrRun       \* handleAudioMessage on a context its caller keeps, and its ASR calls

vars == << kvMode, now, ticks, store, sess, audio, handler, sent,
           closes, archiver, asrCalls, issuedAt, consumed, hist, ring, wav, stor,
           upgrades, asrRun >>

\* ------------------------------------------------------------ frames
Frame(type, error, user, n) ==
  [type |-> type, error |-> error, userId |-> user, n |-> n]

AuthError(error) == Frame("auth_error", error, NoUser, 0)

AuthSuccess(user) == Frame("auth_success", "", user, 0)

ParseError == Frame("error", "Failed to parse message as JSON", NoUser, 0)

UnknownTypeError == Frame("error", "Unknown message type received", NoUser, 0)

CloseCall(code, reason) == [code |-> code, reason |-> reason]

\* ------------------------------------------------------ ticket store
Absent == [present |-> FALSE, userId |-> NoUser, expires |-> 0, used |-> FALSE, putAt |-> 0]

TicketData(user, expires, putAt) ==
  [present |-> TRUE, userId |-> user, expires |-> expires, used |-> FALSE, putAt |-> putAt]

\* TicketStorage.set: kv.put with expirationTtl, or memoryStore.set
StorageSet(st, t, data) == [st EXCEPT ![t] = data]

\* The KV namespace drops a key expirationTtl seconds after its put.
KvLive(d, at) == d.present /\ at < d.putAt + KV_EXPIRATION_TTL_S * 1000

\* TicketStorage.get: the value returned
StorageGetValue(st, t, at) ==
  IF kvMode
    THEN IF KvLive(st[t], at) THEN st[t] ELSE Absent
    ELSE IF st[t].present /\ st[t].expires < at THEN Absent ELSE st[t]

\* TicketStorage.get: the store afterwards (memory mode deletes an expired entry)
StorageGetStore(st, t, at) ==
  IF kvMode
    THEN st
    ELSE IF st[t].present /\ st[t].expires < at THEN [st EXCEPT ![t] = Absent] ELSE st

\* a delete that leaves the key in place
StorageDeleteKeeps(st, t) == st

\* TicketStorage.delete
StorageDelete(st, t) == [st EXCEPT ![t] = Absent]

\* the ticket is stored and readable at instant `at`
KeyPresent(t, at) == IF kvMode THEN KvLive(store[t], at) ELSE store[t].present


\* validateAndConsumeTicket, the checks made on what storage.get returned:
\* "null" (not found or used), "expired" (delete, then null) or "valid"
\* (delete, then the subject).
TicketVerdict(d, at) ==
  IF ~d.present THEN "null"
  ELSE IF d.expires < at THEN "expired"
  ELSE IF d.used THEN "null"
  ELSE "valid"

\* WebSocketTicket.handle: expiresAt of a ticket generated at instant `at`
ExpiresAt(at) == at + TICKET_EXPIRES_MS

\* ------------------------------------------------------- ring buffer
\* RingBuffer: start, length as in the class; cells holds the bytes written to
\* this.buffer so far, by index (a Uint8Array cell never written reads 0).
RingNew == [start |-> 0, length |-> 0, cells |-> << >>]

\* the JavaScript remainder: the sign of the dividend
JsRem(a, b) == IF a >= 0 THEN a % b ELSE 0 - ((0 - a) % b)

Min(a, b) == IF a <= b THEN a ELSE b

Max(a, b) == IF a >= b THEN a ELSE b

\* this.buffer.set(data, at)
CellsWrite(cells, data, at) ==
  LET idx == {at + j - 1 : j \in 1 .. Len(data)}
  IN [i \in (DOMAIN cells) \cup idx |-> IF i \in idx THEN data[i - at + 1] ELSE cells[i]]

\* RingBuffer.append(data): the buffer afterwards, and whether buffer.set
\* raised a RangeError (before this.length += dataLength)
RingAppend(rb, maxBytes, data) ==
  LET bufLen == 2 * maxBytes
      dl == Len(data)
      over == rb.length + dl > maxBytes
      removeLength == rb.length + dl - maxBytes
      start1 == IF over THEN JsRem(rb.start + removeLength, bufLen) ELSE rb.start
      length1 == IF over THEN rb.length - removeLength ELSE rb.length
      writeStart == JsRem(start1 + length1, bufLen)
      oneShot == writeStart + dl <= bufLen
      firstPart == bufLen - writeStart
      threw == writeStart < 0 \/ (~oneShot /\ dl - firstPart > bufLen)
      cells1 == IF oneShot
                  THEN CellsWrite(rb.cells, data, writeStart)
                  ELSE CellsWrite(CellsWrite(rb.cells, SubSeq(data, 1, firstPart), writeStart),
                                  SubSeq(data, firstPart + 1, dl), 0)
  IN IF threw
       THEN [rb |-> [rb EXCEPT !.start = start1, !.length = length1], threw |-> TRUE]
       ELSE [rb |-> [start |-> start1, length |-> length1 + dl, cells |-> cells1],
             threw |-> FALSE]

\* RingBuffer.getData() raises when new Uint8Array(this.length) does
RingGetDataThrows(rb) == rb.length < 0

\* RingBuffer.getData()
RingGetData(rb, maxBytes) ==
  LET bufLen == 2 * maxBytes
      Cell(i) == IF i \in DOMAIN rb.cells THEN rb.cells[i] ELSE 0
      firstPart == bufLen - rb.start
  IN IF rb.length <= 0 THEN << >>
     ELSE IF rb.start + rb.length <= bufLen
       THEN [j \in 1 .. rb.length |-> Cell(rb.start + j - 1)]
       ELSE [j \in 1 .. rb.length |->
               IF j <= firstPart THEN Cell(rb.start + j - 1) ELSE Cell(j - firstPart - 1)]

\* a clear that leaves the buffer as it is
RingClearKeeps(rb) == rb

\* RingBuffer.clear()
RingClear(rb) == [rb EXCEPT !.start = 0, !.length = 0]

\* ------------------------------------------------------ WAV assembly
\* DataView.setUint32(_, v, false): four bytes, most significant first
U32BE(v) == << (v \div 16777216) % 256, (v \div 65536) % 256, (v \div 256) % 256, v % 256 >>

\* a little-endian write that drops the bytes above the first
U32LEOneByte(v) == << v % 256, 0, 0, 0 >>

\* DataView.setUint32(_, v, true): four bytes, least significant first
U32LE(v) == << v % 256, (v \div 256) % 256, (v \div 65536) % 256, (v \div 16777216) % 256 >>

\* DataView.setUint16(_, v, true)
U16LE(v) == << v % 256, (v \div 256) % 256 >>

\* the buffer (bytes 0 .. n-1 held at 1 .. n) after writing bytes at offset off
SetBytes(buf, off, bytes) ==
  [i \in DOMAIN buf |->
     IF off < i /\ i <= off + Len(bytes) THEN bytes[i - off] ELSE buf[i]]

\* new ArrayBuffer(44) after the eleven writes of the fixed part
WAV_HEADER_TEMPLATE ==
  LET b0 == [i \in 1 .. WAV_HEADER_BYTES |-> 0]
      b1 == SetBytes(b0, 0, U32BE(1380533830))     \* 0x52494646 "RIFF"
      b2 == SetBytes(b1, 8, U32BE(1463899717))     \* 0x57415645 "WAVE"
      b3 == SetBytes(b2, 12, U32BE(1718449184))    \* 0x666d7420 "fmt "
      b4 == SetBytes(b3, 16, U32LE(16))
      b5 == SetBytes(b4, 20, U16LE(1))
      b6 == SetBytes(b5, 22, U16LE(CHANNELS))
      b7 == SetBytes(b6, 24, U32LE(SAMPLE_RATE))
      b8 == SetBytes(b7, 28, U32LE(SAMPLE_RATE * CHANNELS * BYTES_PER_SAMPLE))
      b9 == SetBytes(b8, 32, U16LE(CHANNELS * BYTES_PER_SAMPLE))
      b10 == SetBytes(b9, 34, U16LE(BIT_DEPTH))
  IN SetBytes(b10, 36, U32BE(1684108385))          \* 0x64617461 "data"

RECURSIVE SumLen(_)
\* pcmDataChunks.reduce((sum, chunk) => sum + chunk.length, 0)
SumLen(chunks) ==
  IF chunks = << >> THEN 0 ELSE Len(Head(chunks)) + SumLen(Tail(chunks))

RECURSIVE Concat(_)
\* the bytes of a Blob made of these parts
Concat(chunks) ==
  IF chunks = << >> THEN << >> ELSE Head(chunks) \o Concat(Tail(chunks))

\* createOptimizedWavBlob(pcmDataChunks): the bytes of the Blob
createOptimizedWavBlob(pcmDataChunks) ==
  LET pcmDataSize == SumLen(pcmDataChunks)
      h1 == SetBytes(WAV_HEADER_TEMPLATE, 4, U32LE(36 + pcmDataSize))
      header == SetBytes(h1, 40, U32LE(pcmDataSize))
  IN Concat(<< header >> \o pcmDataChunks)

\* ---------------------------------------------------- inbound messages
NoData == [kind |-> "none", bytes |-> << >>]

Msg(type, ticket, data, vad, hasOff, off) ==
  [type |-> type, ticket |-> ticket, data |-> data, vad_state |-> vad,
   has_offset |-> hasOff, vad_offset_ms |-> off]

AuthMsg(t) == Msg("auth", t, NoData, "none", FALSE, 0)

PlainMsg(type) == Msg(type, 0, NoData, "none", FALSE, 0)

\* a frame that JSON.parse rejects
NotJson == PlainMsg("not_json")

\* ------------------------------------------------------ session state
NewSess ==
  [accepted |-> FALSE, isAuthenticated |-> FALSE, userId |-> NoUser,
   authTimeout |-> "unset", timeoutMs |-> 0, closed |-> FALSE]


NewAudio ==
  [audioChunkCounter |-> 0, globalTimeMs |-> 0, isCaching |-> FALSE,
   speechAudioCache |-> << >>, previousChunkBuffer |-> RingNew,
   speechStartTimeMs |-> 0]

\* audioStorage: the state of the object the closure variable refers to;
\* created: createAudioSession calls; orphaned: archivers still active that the
\* closure no longer refers to; cleanups: cleanup() calls; received:
\* processAudioChunk calls.
NewArchiver ==
  [audioStorage |-> "null", created |-> 0, orphaned |-> 0, cleanups |-> 0,
   received |-> << >>]

\* One invocation of the message listener.  pc: where it is suspended ("get":
\* awaiting storage.get, "delete": awaiting storage.delete of a valid ticket,
\* "expdelete": awaiting storage.delete of an expired one) or "done"; branch:
\* the branch of the listener that took the message; startedAt, stale
\* (a Consume of the ticket had returned a subject when this one started),
\* overlap (another invocation of the connection was suspended when this one
\* started) and result ("ok": authenticated, "null": the ticket was refused,
\* "missing": no ticket, "notauth": not an auth message, "-": none of these)
\* and left record the run.
\* isAuthenticated and the number of archivers created on connection s, as an
\* invocation with this result leaves them when it returns
LeftBy(s, result) ==
  [isAuthenticated |-> sess[s].isAuthenticated \/ result = "ok",
   created |-> archiver[s].created + (IF result = "ok" THEN 1 ELSE 0)]

Handler(pc, branch, t, seen, result, s) ==
  [pc |-> pc, branch |-> branch, ticket |-> t, seen |-> seen, startedAt |-> now,
   stale |-> IF t \in TicketIds THEN consumed[t] > 0 ELSE FALSE,
   overlap |-> \E k \in DOMAIN handler[s] :
                  handler[s][k].pc \in {"get", "delete", "expdelete"},
   result |-> result,
   left |-> LeftBy(s, result)]

\* chunks: audio_chunk frames handled since the last audio_stream_start;
\* segOpen: a vad start was handled and no vad end since (segI, segA: its frame
\* number and offset; segData: a frame of the segment carried audio);
\* startsSeen, endsDue: vad starts handled, and vad ends handled that closed
\* an open segment; finalsDue: the segments so closed that carried audio;
\* prefetchDue: cache_asr_trigger frames handled inside an open segment that
\* had audio to submit; acksDue: the value of chunks at each audio_stream_end.
NewHist ==
  [chunks |-> 0, segOpen |-> FALSE, segData |-> FALSE, segI |-> 0, segA |-> 0,
   startsSeen |-> 0, endsDue |-> 0, finalsDue |-> {}, prefetchDue |-> 0,
   acksDue |-> << >>]

InFlight(s) == {k \in DOMAIN handler[s] : handler[s][k].pc \in {"get", "delete", "expdelete"}}

\* ------------------------------------------- OptimizedAudioStorage
\* Date.now() when the model's clock reads 0 (any instant later than
\* windowSizeMs after the epoch; the real one is about 1.7 * 10^12)
ProcessStartMs == 1000 * 1000 * 1000

\* Before createAudioSession.  slidingWindow: entries [timestamp, size] with
\* size = data.length; uploadDue, cleanupDue: the clock readings at which the
\* two intervals fire next (-1 once cleared); inFlight: the uploads suspended
\* at their awaits; puts: the object-store PUTs issued so far.  state is
\* "closed" once cleanup() was called.  Observation: direct counts the calls
\* made by a caller other than the session, late those of them that
\* processAudioChunk received after cleanup(), fed tells that the
\* session handed a frame over since the last clock step.
NewStor ==
  [state |-> "none", isActive |-> FALSE, isUploading |-> FALSE,
   slidingWindow |-> << >>, totalChunks |-> 0, uploadsCompleted |-> 0,
   uploadsFailed |-> 0, startTime |-> 0, uploadDue |-> 0, cleanupDue |-> 0,
   inFlight |-> << >>, puts |-> << >>, direct |-> 0, late |-> 0, fed |-> FALSE]

\* new OptimizedAudioStorage(...) at clock reading t: fields, config, startTimers
StorNew(t) ==
  [NewStor EXCEPT !.state = "live", !.isActive = TRUE,
                  !.startTime = ProcessStartMs + t,
                  !.uploadDue = t + UPLOAD_INTERVAL_MS,
                  !.cleanupDue = t + STORAGE_CLEANUP_MS]

\* the digits of Number.prototype.toString(radix)
Digits36 ==
  << "0", "1", "2", "3", "4", "5", "6", "7", "8", "9", "a", "b", "c", "d", "e",
     "f", "g", "h", "i", "j", "k", "l", "m", "n", "o", "p", "q", "r", "s", "t",
     "u", "v", "w", "x", "y", "z" >>

RECURSIVE toString(_, _)
\* n.toString(radix) of a non-negative integer
toString(n, radix) ==
  IF n < radix THEN Digits36[n + 1]
  ELSE toString(n \div radix, radix) \o Digits36[(n % radix) + 1]

\* values of Math.random().toString(36).substring(2, 8)
RandomTokens == {"k3x9aq", "0b7zzm"}

\* generateSessionId() at Date.now() = wall
generateSessionId(wall, random) == "audio_" \o toString(wall, 36) \o "_" \o random

\* generateFileId() at Date.now() = wall
generateFileId(wall, random) == toString(wall, 36) \o "-" \o random

\* the filename scheduledUpload() builds, split at its only dot
UploadFilename(sessionId, chunkId) ==
  [stem |-> "session_" \o sessionId \o "_original_" \o toString(chunkId, 10),
   extension |-> ".wav"]

\* generateFilePath(): the folder, the file id and the filename's extension
generateFilePath(fileId, filename, folder) ==
  LET basePath == IF folder # "" THEN folder \o "/" \o fileId ELSE fileId
  IN basePath \o filename.extension

\* the key of the r2.put() that uploadFile() issues for the PUT p of archiver a,
\* sr and fr being the random draws of the session id and of the file id
uploadFilePath(a, p, sr, fr) ==
  generateFilePath(generateFileId(p.fileIdAt, fr),
                   UploadFilename(generateSessionId(a.startTime, sr), p.chunkId),
                   "audio-sessions")

\* a maintainWindowSize() that evicts nothing
maintainWindowSizeKeeps(a, wall) == a

\* maintainWindowSize() at Date.now() = wall
maintainWindowSize(a, wall) ==
  LET cutoffTime == wall - WINDOW_SIZE_MS
      Fresh(chunk) == chunk.timestamp > cutoffTime
  IN [a EXCEPT !.slidingWindow = SelectSeq(@, Fresh)]

RECURSIVE TotalBytes(_)
\* updateMemoryStats(): the sum of chunk.data.length
TotalBytes(w) == IF w = << >> THEN 0 ELSE Head(w).size + TotalBytes(Tail(w))

\* stats.memoryUsageMB > config.maxMemoryMB
MemoryLimitExceeded(a) == TotalBytes(a.slidingWindow) > MAX_MEMORY_MB * 1024 * 1024

\* a scheduledUpload() whose guard does not test isUploading
scheduledUploadUnguarded(a, wall, caller) ==
  IF ~a.isActive \/ Len(a.slidingWindow) = 0 THEN a
  ELSE LET p == [chunkId |-> wall \div UPLOAD_INTERVAL_MS,
                 chunkCount |-> Len(a.slidingWindow),
                 frames |-> a.slidingWindow, caller |-> caller,
                 fileIdAt |-> wall]
       IN [a EXCEPT !.isUploading = TRUE, !.inFlight = Append(@, p),
                    !.puts = Append(@, p)]

\* scheduledUpload() up to its awaits: the snapshot, the chunk id and the PUT
scheduledUpload(a, wall, caller) ==
  IF ~a.isActive \/ a.isUploading \/ Len(a.slidingWindow) = 0 THEN a
  ELSE LET p == [chunkId |-> wall \div UPLOAD_INTERVAL_MS,
                 chunkCount |-> Len(a.slidingWindow),
                 frames |-> a.slidingWindow, caller |-> caller,
                 fileIdAt |-> wall]
       IN [a EXCEPT !.isUploading = TRUE, !.inFlight = Append(@, p),
                    !.puts = Append(@, p)]

\* the two statements of emergencyUpload() after await this.scheduledUpload():
\* slice(-keepCount), and slice(-0) is the whole array
EmergencyTrim(a) ==
  LET n == Len(a.slidingWindow)
      keepCount == n \div 2
  IN [a EXCEPT !.slidingWindow =
        IF keepCount = 0 THEN @ ELSE SubSeq(@, n - keepCount + 1, n)]

\* emergencyUpload() up to the awaits of the upload it starts
emergencyUpload(a, wall) ==
  IF a.isUploading THEN a
  ELSE LET b == scheduledUpload(a, wall, "emergency")
       IN IF Len(b.inFlight) > Len(a.inFlight) THEN b ELSE EmergencyTrim(b)

\* a processAudioChunk(chunk) without its first statement
processAudioChunkAlways(a, chunk, wall) ==
  LET a1 == [a EXCEPT !.slidingWindow = Append(@, chunk), !.totalChunks = @ + 1]
      a2 == maintainWindowSize(a1, wall)
  IN IF MemoryLimitExceeded(a2) THEN emergencyUpload(a2, wall) ELSE a2

\* processAudioChunk(chunk) at Date.now() = wall
processAudioChunk(a, chunk, wall) ==
  IF ~a.isActive THEN a
  ELSE LET a1 == [a EXCEPT !.slidingWindow = Append(@, chunk), !.totalChunks = @ + 1]
           a2 == maintainWindowSize(a1, wall)
       IN IF MemoryLimitExceeded(a2) THEN emergencyUpload(a2, wall) ELSE a2

\* an end of the try block that also empties the window
PutSucceededClears(a) == [a EXCEPT !.uploadsCompleted = @ + 1, !.slidingWindow = << >>]

\* scheduledUpload() after await uploadFile returned: the end of the try block
PutSucceeded(a) == [a EXCEPT !.uploadsCompleted = @ + 1]

\* a catch block that also stops the archiver
PutFailedDeactivates(a) == [a EXCEPT !.uploadsFailed = @ + 1, !.isActive = FALSE]

\* scheduledUpload() after await uploadFile raised: the catch block
PutFailed(a) == [a EXCEPT !.uploadsFailed = @ + 1]

\* a scheduledUpload() without its finally block
PutFinallyKeeps(a) == a

\* scheduledUpload(): the finally block
PutFinally(a) == [a EXCEPT !.isUploading = FALSE]

\* the sequence without its i-th element
RemoveAt(q, i) == SubSeq(q, 1, i - 1) \o SubSeq(q, i + 1, Len(q))

\* cleanup(): the statements after the final upload
CleanupEnd(a) == [a EXCEPT !.slidingWindow = << >>]

\* The object store answers the i-th suspended upload: the rest of
\* scheduledUpload(), then the rest of the caller that awaited it.
UploadReturns(a, i, ok) ==
  LET p == a.inFlight[i]
      a1 == [a EXCEPT !.inFlight = RemoveAt(@, i)]
      a2 == PutFinally(IF ok THEN PutSucceeded(a1) ELSE PutFailed(a1))
  IN CASE p.caller = "emergency" -> EmergencyTrim(a2)
       [] p.caller = "cleanup" -> CleanupEnd(a2)
       [] OTHER -> a2

\* forceUpload() up to the awaits of the upload it starts
forceUpload(a, wall) == scheduledUpload(a, wall, "force")

\* cleanup() at Date.now() = wall, up to the awaits of the upload it starts
cleanup(a, wall) ==
  LET a1 == [a EXCEPT !.state = "closed", !.isActive = FALSE,
                      !.uploadDue = -1, !.cleanupDue = -1]
  IN IF Len(a1.slidingWindow) > 0 /\ ~a1.isUploading
       THEN LET b == scheduledUpload(a1, wall, "cleanup")
            IN IF Len(b.inFlight) > Len(a1.inFlight) THEN b ELSE CleanupEnd(b)
       ELSE CleanupEnd(a1)

\* the AudioChunk built by handleAudioMessage, as the archiver keeps it
WindowEntry(f) == [timestamp |-> f.timestamp, size |-> Len(f.data)]

\* A RingBuffer with maxBytes = RingCap driven on its own.  rb: the buffer;
\* log: the bytes appended since construction or the last clear, by the
\* appends that returned; ops: calls made; failed: a call raised; longest:
\* the longest payload offered; snap: what the last getData() returned.
NewRingRun ==
  [rb |-> RingNew, log |-> << >>, ops |-> 0, failed |-> FALSE, longest |-> 0,
   snap |-> << >>]

NewWav == [built |-> FALSE, segments |-> << >>, blob |-> << >>]

\* handleAudioMessage driven with one context object that the caller keeps
\* from call to call (the closure variables of handleAudioSession behave so).
\* ctx: that object; subs: the ASR calls dispatched, each with the arguments
\* it was given (call), the present content of the array it was handed
\* (audioDataChunks), whether that array is the one the context refers to
\* (shared) and where the call stands ("start", "fetch", "done"); sent: the
\* frames handleAudioMessage sent; out: the frames the ASR calls and their
\* catch handlers sent; msgs: the messages handled.
NewAsrRun ==
  [ctx |-> [audioChunkCounter |-> NewAudio.audioChunkCounter,
            globalTimeMs |-> NewAudio.globalTimeMs,
            isCaching |-> NewAudio.isCaching,
            speechAudioCache |-> NewAudio.speechAudioCache,
            closureCache |-> NewAudio.speechAudioCache,
            aliased |-> TRUE,
            previousChunkBuffer |-> NewAudio.previousChunkBuffer,
            speechStartTimeMs |-> NewAudio.speechStartTimeMs,
            userId |-> "user_42",
            audioStorage |-> "null"],
   subs |-> << >>, sent |-> << >>, out |-> << >>, msgs |-> 0]

sessionVars == << kvMode, now, ticks, store, sess, audio, handler, sent,
                  closes, archiver, asrCalls, issuedAt, consumed, hist >>

Init ==
  /\ kvMode \in BOOLEAN
  /\ now = 0
  /\ ticks = 0
  /\ store = [t \in TicketIds |-> Absent]
  /\ sess = [s \in Conns |-> NewSess]
  /\ audio = [s \in Conns |-> NewAudio]
  /\ handler = [s \in Conns |-> << >>]
  /\ sent = [s \in Conns |-> << >>]
  /\ closes = [s \in Conns |-> << >>]
  /\ archiver = [s \in Conns |-> NewArchiver]
  /\ asrCalls = [s \in Conns |-> << >>]
  /\ issuedAt = [t \in TicketIds |-> -1]
  /\ consumed = [t \in TicketIds |-> 0]
  /\ hist = [s \in Conns |-> NewHist]
  /\ ring = NewRingRun
  /\ wav = NewWav
  /\ stor = NewStor
  /\ upgrades = [s \in Conns |-> << >>]
  /\ asrRun = NewAsrRun

\* -------------------------------------------------- process-wide steps
Issued == {t \in TicketIds : issuedAt[t] >= 0}

\* WebSocketTicket.handle with a verified token of subject `user`
IssueTicket(user) ==
  /\ Cardinality(Issued) < MaxIssue
  /\ LET t == Cardinality(Issued) + 1 IN
       /\ store' = StorageSet(store, t, TicketData(user, ExpiresAt(now), now))
       /\ issuedAt' = [issuedAt EXCEPT ![t] = now]
  /\ UNCHANGED << kvMode, upgrades, asrRun, ring, wav, stor, now, ticks, sess, audio, handler, sent,
                  closes, archiver, asrCalls, consumed, hist >>

\* the clock advances
Tick(d) ==
  /\ ticks < MaxTicks
  /\ now' = now + d
  /\ ticks' = ticks + 1
  /\ UNCHANGED << kvMode, upgrades, asrRun, ring, wav, stor, store, sess, audio, handler, sent, closes,
                  archiver, asrCalls, issuedAt, consumed, hist >>

\* the setInterval sweep of memoryStore, every CLEANUP_INTERVAL_MS from the
\* start of the process (the KV namespace is not swept)
MemoryCleanup ==
  /\ ~kvMode
  /\ now >= CLEANUP_INTERVAL_MS
  /\ \E t \in TicketIds : store[t].present /\ (store[t].expires < now \/ store[t].used)
  /\ store' = [t \in TicketIds |->
                 IF store[t].present /\ (store[t].expires < now \/ store[t].used)
                   THEN Absent ELSE store[t]]
  /\ UNCHANGED << kvMode, upgrades, asrRun, ring, wav, stor, now, ticks, sess, audio, handler, sent,
                  closes, archiver, asrCalls, issuedAt, consumed, hist >>


\* ------------------------------------------------- the upgrade request
\* Hostnames are sequences of labels; an entry of CLERK_AUTHORIZED_PARTIES is
\* the text before its first ':' (hasColon) or the whole entry, as a hostname.
Localhost == << "localhost" >>

Loopback == << "127.0.0.1" >>

ProductionHost == << "frapp-api-v1", "frapp", "ai" >>

AppHost == << "app", "example", "com" >>

\* an entry without ':' such as app.example.com
BareParty(h) == [hasColon |-> FALSE, beforeColon |-> h, host |-> h]

\* an entry such as https://app.example.com
UrlParty(scheme, h) == [hasColon |-> TRUE, beforeColon |-> << scheme >>, host |-> h]

\* [..., ...(env.CLERK_AUTHORIZED_PARTIES || '').split(',').filter(Boolean)]
allowedOrigins(parties) ==
  << BareParty(Localhost), BareParty(Loopback), BareParty(ProductionHost) >> \o parties

\* allowed.includes(':') ? allowed.split(':')[0] : allowed
allowedHost(allowed) == IF allowed.hasColon THEN allowed.beforeColon ELSE allowed.host

\* originHost.endsWith('.' + allowedHost)
EndsWithDot(originHost, h) ==
  /\ Len(originHost) > Len(h)
  /\ SubSeq(originHost, Len(originHost) - Len(h) + 1, Len(originHost)) = h

\* allowedOrigins.some(...)
isAllowed(originHost, parties) ==
  \E k \in DOMAIN allowedOrigins(parties) :
    LET h == allowedHost(allowedOrigins(parties)[k])
    IN originHost = h \/ EndsWithDot(originHost, h)

\* handleWebSocket(c): the status of the response, and whether
\* handleSecureAudioSession was called.  new URL(origin) raises on a value
\* that is no URL, outside the try block: the framework answers 500.
handleWebSocket(req, parties) ==
  IF req.upgrade # "websocket" THEN [status |-> 400, session |-> FALSE]
  ELSE IF req.origin.kind = "absent" THEN [status |-> 101, session |-> TRUE]
  ELSE IF req.origin.kind = "malformed" THEN [status |-> 500, session |-> FALSE]
  ELSE IF ~isAllowed(req.origin.host, parties) THEN [status |-> 403, session |-> FALSE]
  ELSE [status |-> 101, session |-> TRUE]

\* ------------------------------------------------ connection lifecycle
\* handleSecureAudioSession(websocket, env): accept, initialise the closure,
\* arm the authentication timeout.  Connections are taken in order.
ConnectSession(s) ==
  /\ ~sess[s].accepted
  /\ \A r \in Conns : r < s => sess[r].accepted
  /\ sess' = [sess EXCEPT ![s] = [NewSess EXCEPT !.accepted = TRUE,
                                               !.authTimeout = "armed",
                                               !.timeoutMs = AUTH_TIMEOUT_MS]]
  /\ UNCHANGED << kvMode, asrRun, ring, wav, stor, now, ticks, store, audio, handler, sent, closes,
                  archiver, asrCalls, issuedAt, consumed, hist >>

\* ... for a connection whose upgrade request is not followed
Connect(s) == ConnectSession(s) /\ UNCHANGED upgrades

TimeoutFrame == AuthError("Authentication timeout - connection closed")

TimeoutClose == CloseCall(POLICY_VIOLATION, "Authentication timeout")

\* the setTimeout callback
AuthTimeoutFires(s) ==
  /\ sess[s].authTimeout = "armed"
  /\ sess' = [sess EXCEPT ![s].authTimeout = "fired"]
  /\ IF ~sess[s].isAuthenticated
       THEN /\ sent' = [sent EXCEPT ![s] = Append(@, TimeoutFrame)]
            /\ closes' = [closes EXCEPT ![s] = Append(@, TimeoutClose)]
       ELSE UNCHANGED << sent, closes >>
  /\ UNCHANGED << kvMode, upgrades, asrRun, ring, wav, stor, now, ticks, store, audio, handler, archiver,
                  asrCalls, issuedAt, consumed, hist >>

\* a clearTimeout that leaves the timer armed
ClearTimeoutKeeps(state) == state

\* clearTimeout(authTimeout)
ClearTimeout(state) == IF state = "armed" THEN "cleared" ELSE state

\* audioStorage.cleanup() as far as the session sees it: the archiver stops
ArchiverCleanup(a) ==
  IF a.audioStorage = "null" THEN a
  ELSE [a EXCEPT !.audioStorage = "inactive", !.cleanups = @ + 1]

\* the close event: both close listeners run
OnCloseSession(s) ==
  /\ sess[s].accepted
  /\ ~sess[s].closed
  /\ sess' = [sess EXCEPT ![s].closed = TRUE,
                          ![s].authTimeout = ClearTimeout(@)]
  /\ archiver' = [archiver EXCEPT ![s] = ArchiverCleanup(ArchiverCleanup(@))]
  /\ UNCHANGED << kvMode, upgrades, asrRun, ring, wav, now, ticks, store, audio, handler, sent, closes,
                  asrCalls, issuedAt, consumed, hist >>

\* ... on a connection whose archiver is not followed
OnClose(s) == OnCloseSession(s) /\ UNCHANGED stor

\* ------------------------------------------------------ authentication
\* a message event can be dispatched to the listener of connection s
CanReceive(s) == sess[s].accepted /\ ~sess[s].closed

\* a catch block that also closes the connection
ParseFailureCloses(s) ==
  /\ CanReceive(s)
  /\ sent' = [sent EXCEPT ![s] = Append(@, ParseError)]
  /\ closes' = [closes EXCEPT ![s] = Append(@, CloseCall(POLICY_VIOLATION, "Invalid message"))]
  /\ handler' = [handler EXCEPT ![s] =
                   Append(@, Handler("done", "catch", 0, Absent, "-", s))]
  /\ UNCHANGED << kvMode, upgrades, asrRun, ring, wav, stor, now, ticks, store, sess, audio, archiver,
                  asrCalls, issuedAt, consumed, hist >>

\* JSON.parse throws: the catch block replies and the listener returns
ParseFailure(s) ==
  /\ CanReceive(s)
  /\ sent' = [sent EXCEPT ![s] = Append(@, ParseError)]
  /\ handler' = [handler EXCEPT ![s] =
                   Append(@, Handler("done", "catch", 0, Absent, "-", s))]
  /\ UNCHANGED << kvMode, upgrades, asrRun, ring, wav, stor, now, ticks, store, sess, audio, closes, archiver,
                  asrCalls, issuedAt, consumed, hist >>

\* not authenticated, type "auth", no ticket
AuthMissingTicket(s) ==
  /\ CanReceive(s)
  /\ ~sess[s].isAuthenticated
  /\ sent' = [sent EXCEPT ![s] =
                Append(@, AuthError("Missing ticket in authentication message"))]
  /\ closes' = [closes EXCEPT ![s] =
                  Append(@, CloseCall(POLICY_VIOLATION, "Invalid authentication"))]
  /\ handler' = [handler EXCEPT ![s] =
                   Append(@, Handler("done", "auth", 0, Absent, "missing", s))]
  /\ UNCHANGED << kvMode, upgrades, asrRun, ring, wav, stor, now, ticks, store, sess, audio, archiver, asrCalls,
                  issuedAt, consumed, hist >>

\* not authenticated and not an auth message
MustAuthenticateFirst(s, m) ==
  /\ CanReceive(s)
  /\ ~sess[s].isAuthenticated
  /\ m.type # "auth"
  /\ sent' = [sent EXCEPT ![s] =
                Append(@, AuthError("Must authenticate first with auth message"))]
  /\ closes' = [closes EXCEPT ![s] =
                  Append(@, CloseCall(POLICY_VIOLATION, "Authentication required"))]
  /\ handler' = [handler EXCEPT ![s] =
                   Append(@, Handler("done", "auth", 0, Absent, "notauth", s))]
  /\ UNCHANGED << kvMode, upgrades, asrRun, ring, wav, stor, now, ticks, store, sess, audio, archiver, asrCalls,
                  issuedAt, consumed, hist >>

\* createAudioSession(userId, ...): a new archiver replaces the reference
CreateAudioSession(a) ==
  [a EXCEPT !.audioStorage = "active", !.created = @ + 1,
            !.orphaned = IF a.audioStorage = "active" THEN @ + 1 ELSE @]

\* the listener after validateAndConsumeTicket returned { userId: user }
AuthSucceeds(s, user) ==
  /\ sess' = [sess EXCEPT ![s].isAuthenticated = TRUE,
                          ![s].userId = user,
                          ![s].authTimeout = ClearTimeout(@)]
  /\ archiver' = [archiver EXCEPT ![s] = CreateAudioSession(@)]
  /\ sent' = [sent EXCEPT ![s] = Append(@, AuthSuccess(user))]
  /\ UNCHANGED closes

\* the listener after validateAndConsumeTicket returned null
AuthFails(s) ==
  /\ sent' = [sent EXCEPT ![s] = Append(@, AuthError("Invalid or expired ticket"))]
  /\ closes' = [closes EXCEPT ![s] =
                  Append(@, CloseCall(POLICY_VIOLATION, "Authentication failed"))]
  /\ UNCHANGED << sess, archiver >>

\* validateAndConsumeTicket on the in-process map: no await of it yields to
\* another event, so the listener runs from dispatch to its return in one step.
AuthMemorySession(s, t) ==
  /\ CanReceive(s)
  /\ ~kvMode
  /\ ~sess[s].isAuthenticated
  /\ LET d == StorageGetValue(store, t, now)
         st1 == StorageGetStore(store, t, now)
         v == TicketVerdict(d, now)
     IN /\ store' = IF v = "null" THEN st1 ELSE StorageDelete(st1, t)
        /\ consumed' = IF v = "valid" THEN [consumed EXCEPT ![t] = @ + 1] ELSE consumed
        /\ handler' = [handler EXCEPT ![s] =
                         Append(@, Handler("done", "auth", t, Absent,
                                           IF v = "valid" THEN "ok" ELSE "null", s))]
        /\ IF v = "valid" THEN AuthSucceeds(s, d.userId) ELSE AuthFails(s)
  /\ UNCHANGED << kvMode, upgrades, asrRun, ring, wav, now, ticks, audio, asrCalls, issuedAt, hist >>

\* ... on a connection whose archiver is not followed
AuthMemory(s, t) == AuthMemorySession(s, t) /\ UNCHANGED stor

\* validateAndConsumeTicket on the KV namespace: the listener suspends at
\* await storage.get(ticket)
AuthKvStart(s, t) ==
  /\ CanReceive(s)
  /\ kvMode
  /\ ~sess[s].isAuthenticated
  /\ handler' = [handler EXCEPT ![s] =
                   Append(@, Handler("get", "auth", t, Absent, "-", s))]
  /\ UNCHANGED << kvMode, upgrades, asrRun, ring, wav, stor, now, ticks, store, sess, audio, sent, closes,
                  archiver, asrCalls, issuedAt, consumed, hist >>

\* kv.get answers: the checks run, then the listener suspends at
\* await storage.delete(ticket) or fails the authentication
AuthKvGetReturns(s, k) ==
  /\ k \in DOMAIN handler[s]
  /\ handler[s][k].pc = "get"
  /\ LET t == handler[s][k].ticket
         d == StorageGetValue(store, t, now)
         v == TicketVerdict(d, now)
     IN /\ store' = StorageGetStore(store, t, now)
        /\ IF v = "null"
             THEN /\ handler' = [handler EXCEPT ![s][k].pc = "done",
                                                ![s][k].result = "null",
                                                ![s][k].left = LeftBy(s, "null")]
                  /\ AuthFails(s)
             ELSE /\ handler' = [handler EXCEPT
                                   ![s][k].pc = IF v = "valid" THEN "delete" ELSE "expdelete",
                                   ![s][k].seen = d]
                  /\ UNCHANGED << sess, archiver, sent, closes >>
  /\ UNCHANGED << kvMode, upgrades, asrRun, ring, wav, stor, now, ticks, audio, asrCalls, issuedAt, consumed, hist >>

\* kv.delete answers: validateAndConsumeTicket returns and the listener goes on
AuthKvDeleteReturns(s, k) ==
  /\ k \in DOMAIN handler[s]
  /\ handler[s][k].pc \in {"delete", "expdelete"}
  /\ LET t == handler[s][k].ticket
         ok == handler[s][k].pc = "delete"
     IN /\ store' = StorageDelete(store, t)
        /\ consumed' = IF ok THEN [consumed EXCEPT ![t] = @ + 1] ELSE consumed
        /\ handler' = [handler EXCEPT ![s][k].pc = "done",
                                      ![s][k].seen = Absent,
                                      ![s][k].result = IF ok THEN "ok" ELSE "null",
                                      ![s][k].left =
                                        LeftBy(s, IF ok THEN "ok" ELSE "null")]
        /\ IF ok THEN AuthSucceeds(s, handler[s][k].seen.userId) ELSE AuthFails(s)
  /\ UNCHANGED << kvMode, upgrades, asrRun, ring, wav, stor, now, ticks, audio, asrCalls, issuedAt, hist >>


\* ----------------------------------------------------------- streaming
VadCacheStart == Frame("vad_cache_start", "", NoUser, 0)

VadCacheEnd == Frame("vad_cache_end", "", NoUser, 0)

StreamStartAck(user) == Frame("audio_stream_start_ack", "", user, 0)

StreamEndAck(n) == Frame("audio_stream_end_ack", "", NoUser, n)

NoCachedAudio == Frame("transcription_error", "No audio data cached for transcription", NoUser, 0)

AsrCall(chunks, startMs, endMs, isPrefetch) ==
  [chunks |-> chunks, speechStartTimeMs |-> startMs, speechEndTimeMs |-> endMs,
   is_prefetch |-> isPrefetch]

\* (vad_offset_ms || 0)
OffsetOrZero(m) == IF m.has_offset THEN m.vad_offset_ms ELSE 0

\* currentChunk.slice(0, Math.min(currentChunk.length, vad_offset_ms * BYTES_PER_MS))
HeadOfChunk(cur, off) == SubSeq(cur, 1, Min(Len(cur), off * BYTES_PER_MS))

\* bufferData.slice(Math.max(0, bufferData.length - Math.abs(vad_offset_ms) * BYTES_PER_MS))
TailOfPreroll(bufferData, off) ==
  SubSeq(bufferData, Max(0, Len(bufferData) - (0 - off) * BYTES_PER_MS) + 1, Len(bufferData))

\* The context object the listener builds for one call of handleAudioMessage:
\* the numbers and the boolean are copied, speechAudioCache and
\* previousChunkBuffer are references to the closure's objects.  closureCache
\* is the closure's array; aliased says that context.speechAudioCache still
\* refers to it.
MakeContext(s) ==
  [audioChunkCounter |-> audio[s].audioChunkCounter,
   globalTimeMs |-> audio[s].globalTimeMs,
   isCaching |-> audio[s].isCaching,
   speechAudioCache |-> audio[s].speechAudioCache,
   closureCache |-> audio[s].speechAudioCache,
   aliased |-> TRUE,
   previousChunkBuffer |-> audio[s].previousChunkBuffer,
   speechStartTimeMs |-> audio[s].speechStartTimeMs,
   userId |-> sess[s].userId,
   audioStorage |-> archiver[s].audioStorage]

\* context.speechAudioCache.push(seg)
CachePush(c, seg) ==
  [c EXCEPT !.speechAudioCache = Append(@, seg),
            !.closureCache = IF c.aliased THEN Append(@, seg) ELSE @]

\* an assignment that leaves the array in place
CacheResetKeeps(c) == c

\* context.speechAudioCache = []
CacheReset(c) == [c EXCEPT !.speechAudioCache = << >>, !.aliased = FALSE]

Outcome(c, out, asr, arch, threw) ==
  [ctx |-> c, out |-> out, asr |-> asr, arch |-> arch, threw |-> threw]

\* case 'audio_stream_start'
OnStreamStart(c) ==
  Outcome([CacheReset(c) EXCEPT !.audioChunkCounter = 0,
                                !.globalTimeMs = 0,
                                !.isCaching = FALSE,
                                !.previousChunkBuffer = RingClear(@),
                                !.speechStartTimeMs = 0],
          << StreamStartAck(c.userId) >>, << >>, << >>, FALSE)

\* case 'audio_chunk'
OnAudioChunk(c0, m) ==
  LET vad == m.vad_state
      off == OffsetOrZero(m)
      c1 == [c0 EXCEPT !.audioChunkCounter = @ + 1]
      hasChunk == m.data.kind = "ok"
      cur == m.data.bytes
      arch == IF hasChunk /\ c1.audioStorage # "null"
                THEN << [timestamp |-> c1.globalTimeMs, data |-> cur,
                         vadState |-> vad, vadOffset |-> off] >>
                ELSE << >>
      \* vad_state === 'start'
      isStart == vad = "start"
      wantPrefix == isStart /\ m.has_offset /\ off < 0
      getThrows == wantPrefix /\ RingGetDataThrows(c1.previousChunkBuffer)
      bufferData == RingGetData(c1.previousChunkBuffer, PREROLL_MAX_BYTES)
      c2a == IF isStart
               THEN [CacheReset([c1 EXCEPT !.isCaching = TRUE])
                       EXCEPT !.speechStartTimeMs = c1.globalTimeMs + off]
               ELSE c1
      c2 == IF wantPrefix /\ ~getThrows /\ Len(bufferData) > 0
              THEN CachePush(c2a, TailOfPreroll(bufferData, off))
              ELSE c2a
      out1 == IF isStart /\ ~getThrows THEN << VadCacheStart >> ELSE << >>
      \* the chunks between start and end
      c3 == IF c2.isCaching /\ hasChunk /\ vad # "end" THEN CachePush(c2, cur) ELSE c2
      app == IF hasChunk
               THEN RingAppend(c3.previousChunkBuffer, PREROLL_MAX_BYTES, cur)
               ELSE [rb |-> c3.previousChunkBuffer, threw |-> FALSE]
      c4 == [c3 EXCEPT !.previousChunkBuffer = app.rb]
      c5 == [c4 EXCEPT !.globalTimeMs = @ + CHUNK_DURATION_MS]
      speechEndTimeMs == c5.globalTimeMs + off
      withTail == IF hasChunk /\ m.has_offset /\ off > 0
                    THEN << HeadOfChunk(cur, off) >>
                    ELSE IF hasChunk THEN << cur >> ELSE << >>
      \* vad_state === 'cache_asr_trigger' && context.isCaching
      isTrigger == vad = "cache_asr_trigger" /\ c5.isCaching
      cachedDataForPrefetch == c5.speechAudioCache \o withTail
      asrPrefetch == IF isTrigger /\ Len(cachedDataForPrefetch) > 0
                       THEN << AsrCall(cachedDataForPrefetch, c5.speechStartTimeMs,
                                       speechEndTimeMs, TRUE) >>
                       ELSE << >>
      \* vad_state === 'end' and context.isCaching
      isEnd == vad = "end" /\ c5.isCaching
      c6 == IF isEnd /\ withTail # << >> THEN CachePush(c5, withTail[1]) ELSE c5
      cachedData == c6.speechAudioCache
      c7 == IF isEnd THEN CacheReset([c6 EXCEPT !.isCaching = FALSE]) ELSE c6
      outEnd == IF ~isEnd THEN << >>
                ELSE IF Len(cachedData) = 0 THEN << VadCacheEnd, NoCachedAudio >>
                ELSE << VadCacheEnd >>
      asrFinal == IF isEnd /\ Len(cachedData) > 0
                    THEN << AsrCall(cachedData, c6.speechStartTimeMs, speechEndTimeMs, FALSE) >>
                    ELSE << >>
  IN IF getThrows THEN Outcome(c2a, << >>, << >>, arch, TRUE)
     ELSE IF app.threw THEN Outcome(c4, out1, << >>, arch, TRUE)
     ELSE Outcome(c7, out1 \o outEnd, asrPrefetch \o asrFinal, arch, FALSE)

\* handleAudioMessage(parsedMessage, websocket, context)
HandleAudioMessage(c, m) ==
  CASE m.type = "audio_stream_start" -> OnStreamStart(c)
    [] m.type = "audio_chunk" -> OnAudioChunk(c, m)
    [] m.type = "audio_stream_end" ->
         Outcome(c, << StreamEndAck(c.audioChunkCounter) >>, << >>, << >>, FALSE)
    [] OTHER -> Outcome(c, << UnknownTypeError >>, << >>, << >>, FALSE)

\* What the closure of handleSecureAudioSession holds after the call: the
\* context object is dropped, so only what was changed through the two shared
\* references remains.
ClosureAfter(a, c) ==
  [a EXCEPT !.speechAudioCache = c.closureCache,
            !.previousChunkBuffer = c.previousChunkBuffer]

\* what the client has streamed on the connection, as the frames are handled
HistAfter(h, m) ==
  CASE m.type = "audio_stream_start" -> [h EXCEPT !.chunks = 0, !.segOpen = FALSE]
    [] m.type = "audio_chunk" ->
         LET i == h.chunks + 1
             h1 == [h EXCEPT !.chunks = i]
             withData == m.data.kind = "ok"
         IN IF m.vad_state = "start"
              THEN [h1 EXCEPT !.segOpen = TRUE, !.segData = withData,
                              !.segI = i, !.segA = OffsetOrZero(m),
                              !.startsSeen = @ + 1]
            ELSE IF m.vad_state = "end" /\ h.segOpen
              THEN [h1 EXCEPT !.segOpen = FALSE,
                              !.endsDue = @ + 1,
                              !.finalsDue = IF h.segData \/ withData
                                              THEN @ \cup {[i |-> h.segI, a |-> h.segA,
                                                            j |-> i, b |-> OffsetOrZero(m)]}
                                              ELSE @]
            ELSE [h1 EXCEPT !.segData = @ \/ (h.segOpen /\ withData),
                            !.prefetchDue =
                              IF /\ m.vad_state = "cache_asr_trigger"
                                 /\ h.segOpen
                                 /\ (h.segData \/ withData)
                                THEN @ + 1 ELSE @]
    [] m.type = "audio_stream_end" -> [h EXCEPT !.acksDue = Append(@, h.chunks)]
    [] OTHER -> h

\* authenticated: the listener calls handleAudioMessage with a fresh context;
\* an exception ends in the catch block of the listener
StreamingSession(s, m) ==
  /\ CanReceive(s)
  /\ sess[s].isAuthenticated
  /\ m.type # "not_json"
  /\ LET r == HandleAudioMessage(MakeContext(s), m)
     IN /\ audio' = [audio EXCEPT ![s] = ClosureAfter(@, r.ctx)]
        /\ sent' = [sent EXCEPT ![s] = @ \o r.out \o
                                         (IF r.threw THEN << ParseError >> ELSE << >>)]
        /\ asrCalls' = [asrCalls EXCEPT ![s] = @ \o r.asr]
        /\ archiver' = [archiver EXCEPT ![s].received = @ \o r.arch]
        /\ handler' = [handler EXCEPT ![s] =
                         Append(@, Handler("done", "streaming", 0, Absent, "-", s))]
        /\ hist' = [hist EXCEPT ![s] = HistAfter(@, m)]
  /\ UNCHANGED << kvMode, upgrades, asrRun, ring, wav, now, ticks, store, sess, closes, issuedAt, consumed >>

\* ... on a connection whose archiver is not followed
Streaming(s, m) == StreamingSession(s, m) /\ UNCHANGED stor


\* ---------------------------------------------------------- the system
\* the messages a client sends while the authentication is being settled
AuthPhaseInputs == {PlainMsg("audio_stream_start")}

SessionInputs == {PlainMsg("audio_stream_start"), PlainMsg("audio_stream_end"), AuthMsg(1)}

\* the subject of the k-th verified token presented to the ticket endpoint
SubjectOf(k) == IF k % 2 = 1 THEN "user_42" ELSE "user_7"

NextSubject == SubjectOf(Cardinality(Issued) + 1)

Room(s) == Len(handler[s]) < MaxMsgs

\* Two connections and the tickets they present; the clock stands still.
Next ==
  \/ IssueTicket(NextSubject)
  \/ \E s \in Conns : Connect(s)
  \/ \E s \in Conns : AuthTimeoutFires(s)
  \/ \E s \in Conns : OnClose(s)
  \/ \E s \in Conns : Room(s) /\ ParseFailure(s)
  \/ \E s \in Conns : Room(s) /\ AuthMissingTicket(s)
  \/ \E s \in Conns, m \in AuthPhaseInputs : Room(s) /\ MustAuthenticateFirst(s, m)
  \/ \E s \in Conns, t \in TicketIds : Room(s) /\ AuthMemory(s, t)
  \/ \E s \in Conns, t \in TicketIds : Room(s) /\ AuthKvStart(s, t)
  \/ \E s \in Conns, k \in 1 .. MaxMsgs : AuthKvGetReturns(s, k)
  \/ \E s \in Conns, k \in 1 .. MaxMsgs : AuthKvDeleteReturns(s, k)
  \/ \E s \in Conns, m \in SessionInputs : Room(s) /\ Streaming(s, m)

Spec == Init /\ [][Next]_vars

\* One client on connection 1 streaming audio after its authentication.
Payloads == {<< 1, 2 >>}

ChunkData == {NoData, [kind |-> "bad", bytes |-> << >>]}
               \cup {[kind |-> "ok", bytes |-> p] : p \in Payloads}

VadStates == {"none", "start", "end", "cache_asr_trigger", "cache_asr_drop"}

Offsets == {<< FALSE, 0 >>, << TRUE, -64 >>, << TRUE, 32 >>}

AudioInputs ==
  {PlainMsg("audio_stream_start"), PlainMsg("audio_stream_end"), PlainMsg("ping")}
    \cup {Msg("audio_chunk", 0, d, v, o[1], o[2]) :
            d \in ChunkData, v \in VadStates, o \in Offsets}

RoomAudio(s) == Len(handler[s]) < MaxAudioMsgs

NextAudio ==
  \/ IssueTicket(NextSubject)
  \/ Connect(1)
  \/ OnClose(1)
  \/ handler[1] = << >> /\ AuthMemory(1, 1)
  \/ handler[1] = << >> /\ AuthKvStart(1, 1)
  \/ AuthKvGetReturns(1, 1)
  \/ AuthKvDeleteReturns(1, 1)
  \/ \E m \in AudioInputs : RoomAudio(1) /\ Streaming(1, m)
  \/ RoomAudio(1) /\ ParseFailure(1)

SpecAudio == Init /\ [][NextAudio]_vars

\* One connection and the tickets it presents as time passes.
TickSteps == {KV_EXPIRATION_TTL_S * 1000, TICKET_EXPIRES_MS, TICKET_EXPIRES_MS + 1}

NextTTL ==
  \/ IssueTicket(NextSubject)
  \/ \E d \in TickSteps : Tick(d)
  \/ MemoryCleanup
  \/ Connect(1)
  \/ OnClose(1)
  \/ \E t \in TicketIds : Room(1) /\ AuthMemory(1, t)
  \/ \E t \in TicketIds : Room(1) /\ AuthKvStart(1, t)
  \/ \E k \in 1 .. MaxMsgs : AuthKvGetReturns(1, k)
  \/ \E k \in 1 .. MaxMsgs : AuthKvDeleteReturns(1, k)

SpecTTL == Init /\ [][NextTTL]_vars


\* ------------------------------- frames that end in the catch block
\* the frame `null`: JSON.parse returns null and the first parsedMessage.type
\* (in the listener, or in handleAudioMessage once authenticated) raises a
\* TypeError, which the catch block of the listener answers
NullFrame(s) ==
  /\ CanReceive(s)
  /\ sent' = [sent EXCEPT ![s] = Append(@, ParseError)]
  /\ handler' = [handler EXCEPT ![s] =
                   Append(@, Handler("done", "type_error", 0, Absent, "-", s))]
  /\ UNCHANGED << kvMode, upgrades, asrRun, ring, wav, stor, now, ticks, store, sess, audio, closes, archiver,
                  asrCalls, issuedAt, consumed, hist >>

\* a decoded audio payload of three times the capacity of the pre-roll ring
LongPayload == [j \in 1 .. (3 * PREROLL_MAX_BYTES) |-> 0]

CatchInputs ==
  {PlainMsg("audio_stream_start"),
   Msg("audio_chunk", 0, [kind |-> "ok", bytes |-> << 1, 2 >>], "none", FALSE, 0),
   Msg("audio_chunk", 0, [kind |-> "ok", bytes |-> LongPayload], "none", FALSE, 0)}

\* One connection receiving frames that JSON.parse rejects, the frame null,
\* and audio of any length.
NextCatch ==
  \/ IssueTicket(NextSubject)
  \/ Connect(1)
  \/ handler[1] = << >> /\ AuthMemory(1, 1)
  \/ handler[1] = << >> /\ AuthKvStart(1, 1)
  \/ AuthKvGetReturns(1, 1)
  \/ AuthKvDeleteReturns(1, 1)
  \/ RoomAudio(1) /\ ParseFailure(1)
  \/ RoomAudio(1) /\ NullFrame(1)
  \/ \E m \in CatchInputs : RoomAudio(1) /\ Streaming(1, m)

SpecCatch == Init /\ [][NextCatch]_vars


\* ------------------------------------------------ the RingBuffer alone
\* payloads up to one byte more than the internal buffer (2 * maxBytes)
RingPayloadLens == 0 .. (2 * RingCap + 1)

\* the n bytes of the payload of call number k, all distinct
RingPayload(k, n) == [j \in 1 .. n |-> 10 * k + j]

\* rb.append(data)
RingAppendOp(n) ==
  /\ ring.ops < MaxRingOps
  /\ LET data == RingPayload(ring.ops + 1, n)
         r == RingAppend(ring.rb, RingCap, data)
     IN ring' = [ring EXCEPT !.rb = r.rb,
                             !.log = IF r.threw THEN @ ELSE @ \o data,
                             !.ops = @ + 1,
                             !.failed = @ \/ r.threw,
                             !.longest = Max(@, n)]
  /\ UNCHANGED << sessionVars, upgrades, asrRun, wav, stor >>

\* rb.clear()
RingClearOp ==
  /\ ring.ops < MaxRingOps
  /\ ring' = [ring EXCEPT !.rb = RingClear(@), !.log = << >>, !.ops = @ + 1]
  /\ UNCHANGED << sessionVars, upgrades, asrRun, wav, stor >>

\* rb.getData()
RingGetDataOp ==
  /\ ring.ops < MaxRingOps
  /\ ring' = [ring EXCEPT !.ops = @ + 1,
                          !.failed = @ \/ RingGetDataThrows(ring.rb),
                          !.snap = IF RingGetDataThrows(ring.rb) THEN @
                                   ELSE RingGetData(ring.rb, RingCap)]
  /\ UNCHANGED << sessionVars, upgrades, asrRun, wav, stor >>

NextRing ==
  \/ \E n \in RingPayloadLens : RingAppendOp(n)
  \/ RingClearOp
  \/ RingGetDataOp

SpecRing == Init /\ [][NextRing]_vars


\* --------------------------------------- createOptimizedWavBlob alone
\* a segment too long for its length to fit one byte
LongSegment == [i \in 1 .. LongSegmentLen |-> i % 256]

Segments == {<< >>, << 0 >>, << 255, 1 >>, LongSegment}

\* the caller collects one more segment
WavAddSegment(seg) ==
  /\ ~wav.built
  /\ Len(wav.segments) < MaxSegments
  /\ wav' = [wav EXCEPT !.segments = Append(@, seg)]
  /\ UNCHANGED << sessionVars, upgrades, asrRun, ring, stor >>

\* createOptimizedWavBlob(segments)
WavCreate ==
  /\ ~wav.built
  /\ wav' = [wav EXCEPT !.built = TRUE, !.blob = createOptimizedWavBlob(wav.segments)]
  /\ UNCHANGED << sessionVars, upgrades, asrRun, ring, stor >>

NextWav ==
  \/ \E seg \in Segments : WavAddSegment(seg)
  \/ WavCreate

SpecWav == Init /\ [][NextWav]_vars

\* --------------------------- a session and its OptimizedAudioStorage
\* Date.now()
DateNow == ProcessStartMs + now

\* the frames a streaming client sends: chunks with data
StorInputs ==
  {Msg("audio_chunk", 0, [kind |-> "ok", bytes |-> p], "none", FALSE, 0) : p \in Payloads}

\* data.length of the frames of another caller: a canonical chunk, and 6 MiB
DirectSizes == {4096, 6 * 1024 * 1024}

RoomStor == Len(handler[1]) < MaxStorMsgs

\* the auth message: the session is created and createAudioSession starts
\* the archiver and its timers
StorAuth ==
  /\ handler[1] = << >>
  /\ AuthMemorySession(1, 1)
  /\ stor' = IF sess'[1].isAuthenticated THEN StorNew(now) ELSE stor

\* a frame of the session: handleAudioMessage, and processAudioChunk as far
\* as it runs before the listener returns
StorStreaming(m) ==
  /\ RoomStor
  /\ StreamingSession(1, m)
  /\ LET before == Len(archiver[1].received)
         frames == SubSeq(archiver'[1].received, before + 1, Len(archiver'[1].received))
     IN stor' = IF frames = << >> THEN stor
                ELSE [processAudioChunk(stor, WindowEntry(frames[1]), DateNow)
                        EXCEPT !.fed = TRUE]

\* processAudioChunk called by another caller, with a frame stamped Date.now()
StorDirect(size) ==
  /\ stor.state # "none"
  /\ stor.direct < MaxDirect
  /\ stor' = [processAudioChunk(stor, [timestamp |-> DateNow, size |-> size], DateNow)
                EXCEPT !.direct = @ + 1,
                       !.late = IF stor.state = "closed" THEN @ + 1 ELSE @]
  /\ UNCHANGED << sessionVars, upgrades, asrRun, ring, wav >>

\* the upload interval fires: scheduledUpload() up to its awaits
StorUploadTimer ==
  /\ stor.uploadDue >= 0
  /\ now >= stor.uploadDue
  /\ stor' = [scheduledUpload(stor, DateNow, "timer")
                EXCEPT !.uploadDue = @ + UPLOAD_INTERVAL_MS]
  /\ UNCHANGED << sessionVars, upgrades, asrRun, ring, wav >>

\* the cleanup interval fires: maintainWindowSize()
StorCleanupTimer ==
  /\ stor.cleanupDue >= 0
  /\ now >= stor.cleanupDue
  /\ stor' = [maintainWindowSize(stor, DateNow)
                EXCEPT !.cleanupDue = @ + STORAGE_CLEANUP_MS]
  /\ UNCHANGED << sessionVars, upgrades, asrRun, ring, wav >>

\* r2Storage.uploadFile returns or raises: the rest of scheduledUpload(), and
\* of emergencyUpload() when that one awaited it
StorPutReturns(i, ok) ==
  /\ i \in DOMAIN stor.inFlight
  /\ stor' = UploadReturns(stor, i, ok)
  /\ UNCHANGED << sessionVars, upgrades, asrRun, ring, wav >>

\* forceUpload() called by another caller
StorForceUpload ==
  /\ stor.state # "none"
  /\ stor.direct < MaxDirect
  /\ stor' = [forceUpload(stor, DateNow) EXCEPT !.direct = @ + 1]
  /\ UNCHANGED << sessionVars, upgrades, asrRun, ring, wav >>

\* the close event of the connection: both close listeners call cleanup()
StorClose ==
  /\ OnCloseSession(1)
  /\ stor' = IF stor.state = "none" THEN stor
             ELSE cleanup(cleanup(stor, DateNow), DateNow)

\* the clock advances to the next firing of the cleanup interval, once the
\* timers that are due have fired and the object store has answered; the
\* client streams without a pause
StorTick ==
  /\ stor.state = "live"
  /\ stor.fed
  /\ stor.inFlight = << >>
  /\ now < MaxStorTicks * STORAGE_CLEANUP_MS
  /\ now < stor.uploadDue /\ now < stor.cleanupDue
  /\ now' = now + STORAGE_CLEANUP_MS
  /\ stor' = [stor EXCEPT !.fed = FALSE]
  /\ UNCHANGED << kvMode, ticks, store, sess, audio, handler, sent, closes,
                  archiver, asrCalls, issuedAt, consumed, hist, ring, wav, upgrades, asrRun >>

NextStor ==
  \/ IssueTicket(NextSubject)
  \/ Connect(1)
  \/ StorAuth
  \/ \E m \in StorInputs : StorStreaming(m)
  \/ \E size \in DirectSizes : StorDirect(size)
  \/ StorUploadTimer
  \/ StorCleanupTimer
  \/ \E i \in 1 .. 2, ok \in BOOLEAN : StorPutReturns(i, ok)
  \/ StorForceUpload
  \/ StorClose
  \/ StorTick

\* a deployment without the KV namespace
InitStor == Init /\ ~kvMode

SpecStor == InitStor /\ [][NextStor]_vars

\* ------------------------------------------------ upgrade requests
UpgradeHeaders == {"websocket", "absent", "h2c"}

OriginHosts ==
  {Localhost, Loopback, ProductionHost, AppHost,
   << "evil", "localhost" >>, << "evil", "com" >>, << "api", "app", "example", "com" >>}

Origins ==
  {[kind |-> "absent", host |-> << >>], [kind |-> "malformed", host |-> << >>]}
    \cup {[kind |-> "url", host |-> h] : h \in OriginHosts}

Requests == {[upgrade |-> u, origin |-> o] : u \in UpgradeHeaders, o \in Origins}

\* values of CLERK_AUTHORIZED_PARTIES: unset, a hostname, an origin
PartyConfigs == {<< >>, << BareParty(AppHost) >>, << UrlParty("https", AppHost) >>}

\* GET /api/ws for connection s: handleWebSocket answers, and hands the socket
\* to handleSecureAudioSession when it upgrades
UpgradeRequest(s, req, parties) ==
  /\ upgrades[s] = << >>
  /\ ~sess[s].accepted
  /\ LET r == handleWebSocket(req, parties)
     IN /\ upgrades' = [upgrades EXCEPT ![s] =
                          << [req |-> req, parties |-> parties, status |-> r.status] >>]
        /\ IF r.session THEN ConnectSession(s)
           ELSE UNCHANGED << sessionVars, asrRun, ring, wav, stor >>

NextUpgrade ==
  \E s \in Conns, req \in Requests, parties \in PartyConfigs : UpgradeRequest(s, req, parties)

SpecUpgrade == Init /\ [][NextUpgrade]_vars

\* ----------------------- handleAudioMessage and the ASR calls it starts
BoolText(b) == IF b THEN "true" ELSE "false"

\* a frame sent by an ASR call or by the catch handler of its dispatch; of:
\* the call it belongs to; at: the number of messages handled when it is
\* sent; is_prefetch: "true", "false" or "absent"
AsrFrame(type, error, hasTimes, startMs, endMs, isPrefetch, i) ==
  [type |-> type, error |-> error, hasTimes |-> hasTimes,
   speechStartTimeMs |-> startMs, speechEndTimeMs |-> endMs,
   is_prefetch |-> isPrefetch, of |-> i, at |-> asrRun.msgs]

\* a dispatch that hands the array of the context itself to a prefetch call
DispatchShared(call) ==
  [call |-> call, audioDataChunks |-> call.chunks, shared |-> call.is_prefetch,
   pc |-> "start"]

\* asrFunction(cachedData, websocket, speechStartTimeMs, speechEndTimeMs, isPrefetch)
\* with cachedData = [...context.speechAudioCache], a new array
Dispatch(call) ==
  [call |-> call, audioDataChunks |-> call.chunks, shared |-> FALSE, pc |-> "start"]

\* a call dispatched earlier, after a message that left the context as c: the
\* array it was handed changed if it is the array of the context
SubAfter(sub, c) ==
  [sub EXCEPT !.audioDataChunks = IF sub.shared THEN c.closureCache ELSE @,
              !.shared = @ /\ c.aliased]

\* result fields read from the context when the answer arrives
ResultFieldsLate(sub, c) ==
  [speechStartTimeMs |-> c.speechStartTimeMs, speechEndTimeMs |-> c.globalTimeMs,
   is_prefetch |-> BoolText(sub.call.is_prefetch)]

\* transcriptionResult: speechStartTimeMs, speechEndTimeMs and isPrefetch are
\* the parameters of the call, whatever the context c holds by then
ResultFields(sub, c) ==
  [speechStartTimeMs |-> sub.call.speechStartTimeMs,
   speechEndTimeMs |-> sub.call.speechEndTimeMs,
   is_prefetch |-> BoolText(sub.call.is_prefetch)]

\* websocket.send(JSON.stringify(transcriptionResult))
TranscriptionResult(sub, c, i) ==
  LET f == ResultFields(sub, c)
  IN AsrFrame("transcription_result", "", TRUE, f.speechStartTimeMs, f.speechEndTimeMs,
              f.is_prefetch, i)

\* the debug_audio frame of DEBUG_MODE
DebugAudio(sub, i) ==
  AsrFrame("debug_audio", "", TRUE, sub.call.speechStartTimeMs, sub.call.speechEndTimeMs,
           "absent", i)

\* errorResult of the ASR function: the answer has no text field
InvalidResponse(sub, i) ==
  AsrFrame("transcription_error", "Invalid response format", FALSE, 0, 0, "absent", i)

\* the catch handlers of the two dispatches: the prefetch one sends
\* is_prefetch: true, the final one sends no is_prefetch
DispatchCatch(sub, i) ==
  AsrFrame("transcription_error", "Failed to process audio", FALSE, 0, 0,
           IF sub.call.is_prefetch THEN "true" ELSE "absent", i)

\* what an ASR call meets: an answer with text, a status that is not 2xx, a
\* 2xx answer without text, a fetch that rejects, no API key in the environment
AsrOutcomes == {"text", "non2xx", "notext", "network", "nokey"}

\* vad_offset_ms as a client may send it: absent, negative, within the
\* chunk, beyond the chunk
AsrOffsets == {<< FALSE, 0 >>, << TRUE, -64 >>, << TRUE, 32 >>, << TRUE, 200 >>}

AsrInputs ==
  {PlainMsg("audio_stream_start"),
   Msg("audio_chunk", 0, [kind |-> "ok", bytes |-> << 1, 2 >>], "none", FALSE, 0)}
    \cup {Msg("audio_chunk", 0, [kind |-> "ok", bytes |-> << 1, 2 >>], "start", o[1], o[2]) :
            o \in AsrOffsets}
    \cup {Msg("audio_chunk", 0, [kind |-> "ok", bytes |-> << 1, 2 >>], v, FALSE, 0) :
            v \in {"end", "cache_asr_trigger"}}

\* handleAudioMessage(m, websocket, context) on the kept context
AsrMessage(m) ==
  /\ asrRun.msgs < MaxAsrMsgs
  /\ LET c0 == [asrRun.ctx EXCEPT !.closureCache = asrRun.ctx.speechAudioCache, !.aliased = TRUE]
         r == HandleAudioMessage(c0, m)
     IN asrRun' = [asrRun EXCEPT
                  !.ctx = r.ctx,
                  !.subs = [k \in DOMAIN @ |-> SubAfter(@[k], r.ctx)]
                             \o [k \in DOMAIN r.asr |-> Dispatch(r.asr[k])],
                  !.sent = @ \o r.out,
                  !.msgs = @ + 1]
  /\ UNCHANGED << sessionVars, upgrades, ring, wav, stor >>

\* DEBUG_MODE: the ASR call sends debug_audio before it fetches
AsrDebug(i) ==
  /\ i \in DOMAIN asrRun.subs
  /\ asrRun.subs[i].pc = "start"
  /\ asrRun' = [asrRun EXCEPT !.subs[i].pc = "fetch",
                        !.out = Append(@, DebugAudio(asrRun.subs[i], i))]
  /\ UNCHANGED << sessionVars, upgrades, ring, wav, stor >>

\* the ASR call ends: with a transcription_result, with its own errorResult,
\* or with an exception that the catch handler of the dispatch reports
AsrReturns(i, outcome) ==
  /\ i \in DOMAIN asrRun.subs
  /\ asrRun.subs[i].pc # "done"
  /\ outcome = "nokey" => asrRun.subs[i].pc = "start"
  /\ LET sub == asrRun.subs[i]
         f == CASE outcome = "text" -> TranscriptionResult(sub, asrRun.ctx, i)
                [] outcome = "notext" -> InvalidResponse(sub, i)
                [] OTHER -> DispatchCatch(sub, i)
     IN asrRun' = [asrRun EXCEPT !.subs[i].pc = "done", !.out = Append(@, f)]
  /\ UNCHANGED << sessionVars, upgrades, ring, wav, stor >>

NextAsr ==
  \/ \E m \in AsrInputs : AsrMessage(m)
  \/ \E i \in 1 .. MaxAsrMsgs : AsrDebug(i)
  \/ \E i \in 1 .. MaxAsrMsgs, outcome \in AsrOutcomes : AsrReturns(i, outcome)

SpecAsr == Init /\ [][NextAsr]_vars

\* ========================================================== properties
Range(q) == {q[i] : i \in DOMAIN q}

Count(q, x) == Cardinality({i \in DOMAIN q : q[i] = x})

Runs == {<< s, k >> \in Conns \X (1 .. 8) : k \in DOMAIN handler[s]}

\* C1: for any issued ticket t, at most one auth consuming t succeeds across
\* the process, whatever the interleaving of the store's get and delete steps
\* of the connections presenting it.
TicketOneShot == \A t \in TicketIds : consumed[t] <= 1

\* C2: once a Consume(t) has returned a subject, the key of t is absent from
\* the store and no Consume(t) that starts afterwards returns a subject.
ConsumedTicketGone ==
  /\ \A t \in TicketIds : consumed[t] > 0 => ~store[t].present
  /\ \A r \in Runs : handler[r[1]][r[2]].stale =>
       /\ handler[r[1]][r[2]].pc # "delete"
       /\ handler[r[1]][r[2]].result # "ok"

\* C2 witness: a ticket was consumed, and a later presentation of it was refused
SecondPresentationRefused ==
  \E r \in Runs : /\ handler[r[1]][r[2]].stale
                  /\ handler[r[1]][r[2]].result = "null"
                  /\ consumed[handler[r[1]][r[2]].ticket] = 1

\* C3: no Consume that starts 300 s or more after the ticket was issued
\* returns a subject, with the KV namespace and with the in-process map alike.
TicketRefusedAfterTTL ==
  \A r \in Runs :
    LET h == handler[r[1]][r[2]]
    IN h.result = "ok" => h.startedAt - issuedAt[h.ticket] < 300 * 1000

\* C4: once a connection is authenticated no further auth_success or
\* auth_error is sent on it (none follows the first auth_success).
NoAuthReplyAfterSuccess ==
  \A s \in Conns : \A i, j \in DOMAIN sent[s] :
    (i < j /\ sent[s][i].type = "auth_success")
      => sent[s][j].type \notin {"auth_success", "auth_error"}

\* C5: the listener handles the messages of a connection one at a time: no
\* message is taken while the handling of an earlier one is suspended.
SingleConsumer == \A r \in Runs : ~handler[r[1]][r[2]].overlap

\* C6: the timer armed at accept is a 5 s timer; when it expires on a
\* connection that is not authenticated the server sends the timeout
\* auth_error and closes with 1008 "Authentication timeout"; once the
\* connection is authenticated the timer is no longer armed, and no step
\* sends the timeout frame or closes with the timeout reason.
AuthDeadline ==
  [][\A s \in Conns :
       /\ sess'[s].authTimeout = "armed" => sess'[s].timeoutMs = 5000
       /\ (sess[s].authTimeout = "armed" /\ sess'[s].authTimeout = "fired"
             /\ ~sess[s].isAuthenticated)
            => /\ sent'[s] = Append(sent[s],
                               AuthError("Authentication timeout - connection closed"))
               /\ closes'[s] = Append(closes[s], CloseCall(1008, "Authentication timeout"))
       /\ sess'[s].isAuthenticated => sess'[s].authTimeout # "armed"
       /\ sess[s].isAuthenticated
            => /\ sess'[s].authTimeout = sess[s].authTimeout
               /\ Count(sent'[s], AuthError("Authentication timeout - connection closed"))
                    = Count(sent[s], AuthError("Authentication timeout - connection closed"))
               /\ Count(closes'[s], CloseCall(1008, "Authentication timeout"))
                    = Count(closes[s], CloseCall(1008, "Authentication timeout"))
    ]_vars

\* C6 witness: one connection timed out unauthenticated and was closed by the
\* timer, another authenticated in time and its timer was cancelled
DeadlineBothWays ==
  /\ \E s \in Conns : /\ sess[s].authTimeout = "fired"
                      /\ ~sess[s].isAuthenticated
                      /\ sent[s] = << AuthError("Authentication timeout - connection closed") >>
                      /\ closes[s] = << CloseCall(1008, "Authentication timeout") >>
  /\ \E s \in Conns : /\ sess[s].isAuthenticated
                      /\ sess[s].authTimeout = "cleared"
                      /\ ~sess[s].closed
                      /\ closes[s] = << >>

\* the error text of each way an authentication attempt is refused
FailureText(result) ==
  CASE result = "notauth" -> "Must authenticate first with auth message"
    [] result = "missing" -> "Missing ticket in authentication message"
    [] OTHER -> "Invalid or expired ticket"

Refusals(s) ==
  {k \in DOMAIN handler[s] : /\ handler[s][k].pc = "done"
                             /\ handler[s][k].result \in {"notauth", "missing", "null"}}

\* C7: a message that is not auth, an auth without ticket and an auth whose
\* ticket is refused, taken on a connection that is not authenticated, each
\* get one auth_error with their text and one close with code 1008, and
\* return with the connection not authenticated and no archiver created.
AuthFailureLeavesUnauthenticated ==
  \A s \in Conns :
    /\ \A k \in Refusals(s) :
         /\ ~handler[s][k].left.isAuthenticated
         /\ handler[s][k].left.created = 0
    /\ \A res \in {"notauth", "missing", "null"} :
         Count(sent[s], AuthError(FailureText(res)))
           = Cardinality({k \in Refusals(s) : handler[s][k].result = res})
    /\ Cardinality({i \in DOMAIN closes[s] :
                      /\ closes[s][i].code = 1008
                      /\ closes[s][i].reason # "Authentication timeout"})
         = Cardinality(Refusals(s))

\* C8: on an authenticated connection, after n audio_chunk frames since the
\* last audio_stream_start the session's globalTimeMs is 128 * n.
GlobalTimeCountsChunks ==
  \A s \in Conns :
    sess[s].isAuthenticated => audio[s].globalTimeMs = 128 * hist[s].chunks

\* C9: every vad end that follows a vad start on an earlier frame is answered
\* with vad_cache_end, and every such segment that carried audio gets exactly
\* one ASR submission with is_prefetch = false.
VadSegmentsPaired ==
  \A s \in Conns :
    /\ Count(sent[s], VadCacheEnd) = hist[s].endsDue
    /\ Cardinality({i \in DOMAIN asrCalls[s] : ~asrCalls[s][i].is_prefetch})
         = Cardinality(hist[s].finalsDue)

\* C10: the final submission of a segment that starts on frame i with offset
\* a and ends on frame j with offset b carries speechStartTimeMs =
\* (i-1)*128 + a and speechEndTimeMs = (j-1)*128 + b.
SpeechTimestamps ==
  \A s \in Conns : \A f \in hist[s].finalsDue :
    \E n \in DOMAIN asrCalls[s] :
      /\ ~asrCalls[s][n].is_prefetch
      /\ asrCalls[s][n].speechStartTimeMs = (f.i - 1) * 128 + f.a
      /\ asrCalls[s][n].speechEndTimeMs = (f.j - 1) * 128 + f.b

\* the closure record a as the context object of one handleAudioMessage call
ContextFrom(a, s) ==
  [MakeContext(s) EXCEPT !.audioChunkCounter = a.audioChunkCounter,
                         !.globalTimeMs = a.globalTimeMs,
                         !.isCaching = a.isCaching,
                         !.speechAudioCache = a.speechAudioCache,
                         !.closureCache = a.speechAudioCache,
                         !.previousChunkBuffer = a.previousChunkBuffer,
                         !.speechStartTimeMs = a.speechStartTimeMs]

\* what the listener of connection s does with message m when its closure
\* holds a: the closure afterwards, the frames sent, the ASR submissions
HandledFrom(a, s, m) ==
  LET r == HandleAudioMessage(ContextFrom(a, s), m)
  IN [audio |-> ClosureAfter(a, r.ctx),
      out |-> r.out \o (IF r.threw THEN << ParseError >> ELSE << >>),
      asr |-> r.asr]

Streams == {s \in Conns : sess[s].isAuthenticated}

IsEndAck(f) == f.type = "audio_stream_end_ack"

\* C11: every cache_asr_trigger frame handled inside an open segment that has
\* audio makes one ASR submission with is_prefetch = true (the cache is kept
\* and the end frame submits the utterance again, with is_prefetch = false).
PrefetchThenFinal ==
  \A s \in Conns :
    Cardinality({i \in DOMAIN asrCalls[s] : asrCalls[s][i].is_prefetch})
      = hist[s].prefetchDue

\* C12: each audio_stream_end is answered with an audio_stream_end_ack whose
\* receivedChunks is the number of audio_chunk messages handled since the last
\* audio_stream_start (or since authentication), and with no close.
EndAckCountsChunks ==
  \A s \in Conns :
    LET acks == SelectSeq(sent[s], IsEndAck)
    IN /\ Len(acks) = Len(hist[s].acksDue)
       /\ \A i \in DOMAIN acks : acks[i].n = hist[s].acksDue[i]
       /\ (hist[s].acksDue # << >> /\ ~sess[s].closed) => closes[s] = << >>

\* C13: between message handlings, isCaching = false implies that
\* speechAudioCache is empty.
CacheContainment ==
  \A s \in Conns : ~audio[s].isCaching => audio[s].speechAudioCache = << >>

\* C13 witness: a vad start frame with audio was handled and acknowledged, and
\* the session is not caching and its cache is empty
NotCachingAfterStart ==
  \E s \in Conns : /\ hist[s].segOpen /\ hist[s].segData
                   /\ VadCacheStart \in Range(sent[s])
                   /\ ~audio[s].isCaching
                   /\ audio[s].speechAudioCache = << >>

\* C14: an audio_chunk with vad_state end or cache_asr_trigger handled while
\* isCaching = false sends nothing and submits nothing; it advances
\* audioChunkCounter by one and globalTimeMs by 128, appends its audio to the
\* pre-roll and changes nothing else.
EndWhileNotCachingOnlyAdvances ==
  \A s \in Streams : \A m \in AudioInputs :
    (/\ m.type = "audio_chunk"
     /\ m.vad_state \in {"end", "cache_asr_trigger"}
     /\ ~audio[s].isCaching)
      => LET h == HandledFrom(audio[s], s, m)
         IN /\ h.out = << >>
            /\ h.asr = << >>
            /\ h.audio.audioChunkCounter = audio[s].audioChunkCounter + 1
            /\ h.audio.globalTimeMs = audio[s].globalTimeMs + 128
            /\ h.audio.isCaching = audio[s].isCaching
            /\ h.audio.speechAudioCache = audio[s].speechAudioCache
            /\ h.audio.speechStartTimeMs = audio[s].speechStartTimeMs
            /\ h.audio.previousChunkBuffer =
                 IF m.data.kind = "ok"
                   THEN RingAppend(audio[s].previousChunkBuffer,
                                   PREROLL_MAX_BYTES, m.data.bytes).rb
                   ELSE audio[s].previousChunkBuffer

\* the last n elements of q, all of q when it is shorter
LastBytes(q, n) == SubSeq(q, Len(q) - Min(n, Len(q)) + 1, Len(q))

\* C15: after a vad start frame with a negative offset, handled with a
\* non-empty pre-roll, speechAudioCache starts with the last
\* min(|vad_offset_ms| * 32, pre-roll length) bytes the pre-roll held before
\* the frame.
PrerollLookBehind ==
  \A s \in Streams : \A m \in AudioInputs :
    LET before == RingGetData(audio[s].previousChunkBuffer, PREROLL_MAX_BYTES)
        h == HandledFrom(audio[s], s, m)
    IN (/\ m.type = "audio_chunk"
        /\ m.vad_state = "start"
        /\ m.has_offset /\ m.vad_offset_ms < 0
        /\ before # << >>)
         => /\ h.audio.speechAudioCache # << >>
            /\ h.audio.speechAudioCache[1]
                 = LastBytes(before, (0 - m.vad_offset_ms) * 32)

\* C16: a step that handles audio_stream_start leaves audioChunkCounter = 0,
\* globalTimeMs = 0, isCaching = false, speechAudioCache empty, the pre-roll
\* empty and speechStartTimeMs = 0, and handling audio_stream_start once more
\* would leave the session as it is.
StreamStartResets ==
  [][\A s \in Conns :
       sent'[s] = Append(sent[s], StreamStartAck(sess[s].userId))
         => /\ audio'[s].audioChunkCounter = 0
            /\ audio'[s].globalTimeMs = 0
            /\ audio'[s].isCaching = FALSE
            /\ audio'[s].speechAudioCache = << >>
            /\ audio'[s].previousChunkBuffer.length = 0
            /\ RingGetData(audio'[s].previousChunkBuffer, PREROLL_MAX_BYTES) = << >>
            /\ audio'[s].speechStartTimeMs = 0
            /\ HandledFrom(audio'[s], s, PlainMsg("audio_stream_start")).audio
                 = audio'[s]
    ]_vars

\* C16 witness: audio_stream_start was the last message answered, after audio
\* had been appended to the pre-roll, and the pre-roll is empty
ResetAfterAudio ==
  \E s \in Conns : /\ sent[s] # << >>
                   /\ sent[s][Len(sent[s])].type = "audio_stream_start_ack"
                   /\ audio[s].previousChunkBuffer.cells # << >>
                   /\ audio[s].previousChunkBuffer.length = 0

\* C17: whatever is appended (payloads longer than the capacity included) and
\* cleared, 0 <= length <= maxBytes, no append and no getData raises, and
\* getData returns at most maxBytes bytes (8192 for the pre-roll).
RingBounded ==
  /\ 0 <= ring.rb.length /\ ring.rb.length <= RingCap
  /\ ~ring.failed
  /\ ~RingGetDataThrows(ring.rb)
  /\ Len(RingGetData(ring.rb, RingCap)) <= RingCap
  /\ PREROLL_MAX_BYTES = 8192

\* C18: getData returns the most recent min(bytes appended since construction
\* or the last clear, maxBytes) bytes in append order, and nothing after clear.
RingContent ==
  /\ ~RingGetDataThrows(ring.rb)
  /\ RingGetData(ring.rb, RingCap) = LastBytes(ring.log, RingCap)

\* what a WAV parser reads: a little-endian integer of n bytes at offset off
ReadLE(blob, off, n) ==
  IF n = 2 THEN blob[off + 1] + 256 * blob[off + 2]
  ELSE blob[off + 1] + 256 * (blob[off + 2] + 256 * (blob[off + 3] + 256 * blob[off + 4]))

Tag(blob, off) == SubSeq(blob, off + 1, off + 4)

\* C19: for every list of segments the blob is a 44-byte header with RIFF size
\* 36 + dataSize, format PCM, 1 channel, 16000 Hz, 16 bits per sample, data
\* size = sum of the segment lengths, followed by the segments in order.
WavRoundTrip ==
  wav.built =>
    LET dataSize == SumLen(wav.segments)
        b == wav.blob
    IN /\ Len(b) = 44 + dataSize
       /\ Tag(b, 0) = << 82, 73, 70, 70 >>
       /\ ReadLE(b, 4, 4) = 36 + dataSize
       /\ Tag(b, 8) = << 87, 65, 86, 69 >>
       /\ Tag(b, 12) = << 102, 109, 116, 32 >>
       /\ ReadLE(b, 16, 4) = 16
       /\ ReadLE(b, 20, 2) = 1
       /\ ReadLE(b, 22, 2) = 1
       /\ ReadLE(b, 24, 4) = 16000
       /\ ReadLE(b, 28, 4) = 32000
       /\ ReadLE(b, 32, 2) = 2
       /\ ReadLE(b, 34, 2) = 16
       /\ Tag(b, 36) = << 100, 97, 116, 97 >>
       /\ ReadLE(b, 40, 4) = dataSize
       /\ SubSeq(b, 45, Len(b)) = Concat(wav.segments)
       /\ \A k \in DOMAIN wav.segments :
            SubSeq(b, 44 + SumLen(SubSeq(wav.segments, 1, k - 1)) + 1,
                      44 + SumLen(SubSeq(wav.segments, 1, k))) = wav.segments[k]

\* a blob built from several segments, one empty and one longer than 255 bytes
WavFromSeveralSegments ==
  /\ wav.built
  /\ Len(wav.segments) = MaxSegments
  /\ << >> \in Range(wav.segments)
  /\ LongSegment \in Range(wav.segments)
  /\ wav.segments[1] = << 255, 1 >>

\* C20: an authenticated session that has streamed non-empty chunks without a
\* pause for 150 s has had two object-store PUTs issued for it, at
\* consecutive chunk indices k and k + 1.
ArchiveCadence ==
  ( /\ stor.state = "live" /\ stor.isActive
    /\ sess[1].isAuthenticated /\ ~sess[1].closed
    /\ now = 150000
    /\ stor.direct = 0
    /\ stor.uploadsFailed = 0
    /\ now < stor.uploadDue )
  => /\ Len(stor.puts) = 2
     /\ stor.puts[2].chunkId = stor.puts[1].chunkId + 1

\* C21: in every archiver state the largest and the smallest timestamp of
\* the entries of the window differ by at most windowSizeMs.
WindowBound ==
  \A i, j \in DOMAIN stor.slidingWindow :
    stor.slidingWindow[i].timestamp - stor.slidingWindow[j].timestamp <= WINDOW_SIZE_MS

\* a window holding frames taken at different clock readings
WindowSpansClockSteps ==
  \E i, j \in DOMAIN stor.slidingWindow :
    stor.slidingWindow[j].timestamp - stor.slidingWindow[i].timestamp >= STORAGE_CLEANUP_MS

\* C22: a failing object-store PUT sends nothing to the client, does not close
\* the connection and leaves the session able to handle later frames; compared
\* with a PUT that succeeds, only uploadsFailed (instead of uploadsCompleted)
\* changes in the archiver.
ArchiveFailureSilent ==
  [][ stor'.uploadsFailed > stor.uploadsFailed =>
        /\ UNCHANGED sessionVars
        /\ CanReceive(1)' = CanReceive(1)
        /\ stor'.isActive = stor.isActive
        /\ \E i \in DOMAIN stor.inFlight :
             stor' = [UploadReturns(stor, i, TRUE)
                        EXCEPT !.uploadsCompleted = stor.uploadsCompleted,
                               !.uploadsFailed = stor.uploadsFailed + 1] ]_vars

\* the PUT of the upload tick at 60 s failed, and the session handled a frame
\* at 90 s
FrameAfterFailedPut ==
  /\ now = 90000 /\ stor.fed /\ CanReceive(1)
  /\ stor.uploadsFailed = 1 /\ stor.uploadsCompleted = 0
  /\ stor.inFlight = << >>
  /\ Len(stor.puts) = 1
  /\ stor.puts[1].chunkId = (ProcessStartMs + 60000) \div UPLOAD_INTERVAL_MS

\* the messages of AudioInputs whose type handleAudioMessage does not know
UnknownInputs ==
  {m \in AudioInputs : m.type \notin {"audio_stream_start", "audio_chunk", "audio_stream_end"}}

\* the listener of connection 1 ended in its catch block on a frame that is no JSON
CatchStep ==
  /\ Len(handler'[1]) = Len(handler[1]) + 1
  /\ handler'[1][Len(handler'[1])].branch = "catch"

\* C23: a frame that is not valid JSON (before or after the authentication)
\* and, once authenticated, a message of unknown type each produce exactly one
\* error reply, leave the connection open and leave authenticated,
\* frame_count, global_time_ms, caching, utterance_cache and preroll unchanged.
ProtocolErrorsHarmless ==
  [][ /\ CatchStep =>
           /\ sent'[1] = Append(sent[1], ParseError)
           /\ UNCHANGED << sess, audio, closes, archiver, asrCalls >>
      /\ \A m \in UnknownInputs :
           sess[1].isAuthenticated /\ StreamingSession(1, m) =>
             /\ sent'[1] = Append(sent[1], UnknownTypeError)
             /\ UNCHANGED << sess, audio, closes, asrCalls >>
             /\ archiver'[1].received = archiver[1].received ]_vars

\* connection 1 got the parse error before and after its authentication, and
\* the unknown-type error in between
ProtocolErrorsInBothPhases ==
  /\ Len(sent[1]) >= 4
  /\ sent[1][1] = ParseError
  /\ sent[1][2].type = "auth_success"
  /\ UnknownTypeError \in Range(sent[1])
  /\ sent[1][Len(sent[1])] = ParseError
  /\ CanReceive(1) /\ sess[1].isAuthenticated

\* the hostnames of the allowlist: the configured parties, localhost and
\* 127.0.0.1 (and the production host the handler adds)
Allowlist(parties) ==
  {Localhost, Loopback, ProductionHost} \cup {parties[k].host : k \in DOMAIN parties}

\* C24: an upgrade request whose Origin hostname is not in the allowlist is
\* answered with 403 and gets no session; a session exists only for requests
\* with Upgrade: websocket whose Origin passed.
OriginCheck ==
  \A s \in Conns : \A k \in DOMAIN upgrades[s] :
    LET u == upgrades[s][k]
    IN /\ ( /\ u.req.upgrade = "websocket"
            /\ u.req.origin.kind = "url"
            /\ u.req.origin.host \notin Allowlist(u.parties) )
            => u.status = 403 /\ ~sess[s].accepted
       /\ sess[s].accepted => u.req.upgrade = "websocket" /\ u.status = 101

\* C25: when the connection closes on an archiver whose window is not empty
\* and that has no upload in flight, cleanup() issues exactly one more PUT, and
\* that PUT carries the frames of the window.
ShutdownFlush ==
  [][ ( /\ StorClose
        /\ stor.state = "live"
        /\ stor.slidingWindow # << >>
        /\ ~stor.isUploading )
      => /\ Len(stor'.puts) = Len(stor.puts) + 1
         /\ stor'.puts[Len(stor'.puts)].frames = stor.slidingWindow ]_vars

\* C26: processAudioChunk on an active archiver counts the frame and the
\* frame is the last entry of the window when the call returns, for a frame
\* of the session as for a frame of another caller.
ArchiverIntake ==
  [][ /\ \A m \in StorInputs :
           ( /\ StorStreaming(m)
             /\ stor.isActive
             /\ Len(archiver'[1].received) > Len(archiver[1].received) )
           => /\ stor'.totalChunks = stor.totalChunks + 1
              /\ stor'.slidingWindow # << >>
              /\ stor'.slidingWindow[Len(stor'.slidingWindow)] =
                   WindowEntry(archiver'[1].received[Len(archiver'[1].received)])
      /\ \A size \in DirectSizes :
           (StorDirect(size) /\ stor.isActive)
           => /\ stor'.totalChunks = stor.totalChunks + 1
              /\ stor'.slidingWindow # << >>
              /\ stor'.slidingWindow[Len(stor'.slidingWindow)] =
                   [timestamp |-> DateNow, size |-> size] ]_vars

\* C27: at most one upload of the archiver is in flight, and no step taken
\* while isUploading is true (an upload tick, an emergency upload,
\* forceUpload, the flush of cleanup) issues a PUT.
UploadMutualExclusion ==
  [][ /\ Len(stor.inFlight) <= 1
      /\ Len(stor'.inFlight) <= 1
      /\ stor.isUploading => Len(stor'.puts) = Len(stor.puts) ]_vars

\* the upload interval fired at 60 s while the PUT started by forceUpload, on
\* a window holding a frame taken at 30 s, was still in flight
UploadTickWhileUploading ==
  /\ Len(stor.inFlight) = 1
  /\ stor.inFlight[1].caller = "force"
  /\ stor.inFlight[1].frames[1].timestamp = ProcessStartMs + STORAGE_CLEANUP_MS
  /\ now = UPLOAD_INTERVAL_MS
  /\ stor.uploadDue = 2 * UPLOAD_INTERVAL_MS
  /\ Len(stor.puts) = 1

\* C28: when the PUT of an emergency upload returns on a window of n entries,
\* the window keeps exactly its ceil(n / 2) most recent entries, in order.
EmergencyKeepsNewerHalf ==
  [][ \A i \in 1 .. 2, ok \in BOOLEAN :
        (StorPutReturns(i, ok) /\ stor.inFlight[i].caller = "emergency")
        => LET n == Len(stor.slidingWindow)
               keep == (n + 1) \div 2
           IN stor'.slidingWindow = SubSeq(stor.slidingWindow, n - keep + 1, n) ]_vars

\* C29: a scheduled upload (started by the interval or by forceUpload) puts a
\* snapshot of the window and leaves the window as it is, when it starts and
\* when its PUT returns or fails; a step that removes entries from the window
\* is an eviction (in processAudioChunk or the cleanup interval), the trimming
\* after an emergency upload, or cleanup().
ScheduledUploadKeepsWindow ==
  [][ /\ (StorUploadTimer \/ StorForceUpload)
         => /\ stor'.slidingWindow = stor.slidingWindow
            /\ Len(stor'.puts) > Len(stor.puts)
                 => stor'.puts[Len(stor'.puts)].frames = stor.slidingWindow
      /\ \A i \in 1 .. 2, ok \in BOOLEAN :
           (StorPutReturns(i, ok) /\ stor.inFlight[i].caller \in {"timer", "force"})
           => stor'.slidingWindow = stor.slidingWindow
      /\ ( /\ stor'.slidingWindow # stor.slidingWindow
           /\ ~ \E x \in {stor'.slidingWindow[k] : k \in DOMAIN stor'.slidingWindow} :
                  stor'.slidingWindow = Append(stor.slidingWindow, x) )
         => \/ StorCleanupTimer
            \/ StorClose
            \/ \E size \in DirectSizes : StorDirect(size)
            \/ \E m \in StorInputs : StorStreaming(m)
            \/ \E i \in 1 .. 2, ok \in BOOLEAN :
                 /\ StorPutReturns(i, ok)
                 /\ stor.inFlight[i].caller \in {"emergency", "cleanup"} ]_vars

\* the interval's PUT succeeded, then the PUT of forceUpload failed, and the
\* window still holds the frames both of them uploaded
WindowKeptAfterUploads ==
  /\ Len(stor.puts) = 2
  /\ stor.puts[1].caller = "timer" /\ stor.puts[2].caller = "force"
  /\ stor.uploadsCompleted = 1 /\ stor.uploadsFailed = 1
  /\ stor.inFlight = << >>
  /\ stor.slidingWindow # << >>
  /\ stor.slidingWindow = stor.puts[1].frames
  /\ stor.slidingWindow = stor.puts[2].frames

\* C30: a PUT that fails adds one to uploadsFailed, leaves uploadsCompleted
\* and ends with isUploading false; a PUT that succeeds adds one to
\* uploadsCompleted and leaves uploadsFailed; and an upload tick on an active
\* archiver with a non-empty window and no upload in flight issues a PUT,
\* after a failure as before it.
UploadFailureAndRetry ==
  [][ /\ \A i \in 1 .. 2 :
           /\ StorPutReturns(i, FALSE)
                => /\ stor'.uploadsFailed = stor.uploadsFailed + 1
                   /\ stor'.uploadsCompleted = stor.uploadsCompleted
                   /\ ~stor'.isUploading
                   /\ stor'.isActive = stor.isActive
           /\ StorPutReturns(i, TRUE)
                => /\ stor'.uploadsCompleted = stor.uploadsCompleted + 1
                   /\ stor'.uploadsFailed = stor.uploadsFailed
                   /\ ~stor'.isUploading
      /\ ( /\ StorUploadTimer
           /\ stor.isActive
           /\ stor.slidingWindow # << >>
           /\ ~stor.isUploading )
         => /\ Len(stor'.puts) = Len(stor.puts) + 1
            /\ stor'.puts[Len(stor'.puts)].caller = "timer"
            /\ stor'.isUploading ]_vars

\* the PUT of the first upload tick failed, and the next tick has issued a
\* PUT at the next chunk id
RetryAfterFailedUpload ==
  /\ Len(stor.puts) = 2
  /\ stor.puts[1].caller = "timer" /\ stor.puts[2].caller = "timer"
  /\ stor.puts[2].chunkId = stor.puts[1].chunkId + 1
  /\ stor.uploadsFailed = 1 /\ stor.uploadsCompleted = 0
  /\ Len(stor.inFlight) = 1

\* C31: once cleanup() has run, the archiver is inactive and both intervals
\* are cleared; a processAudioChunk call changes neither the window nor the
\* counters, no interval fires, and no step issues a PUT.
InactiveAfterCleanup ==
  [][ stor.state = "closed"
      => /\ ~stor.isActive /\ stor.uploadDue < 0 /\ stor.cleanupDue < 0
         /\ ~StorUploadTimer /\ ~StorCleanupTimer
         /\ Len(stor'.puts) = Len(stor.puts)
         /\ \A size \in DirectSizes :
              StorDirect(size)
              => /\ stor'.slidingWindow = stor.slidingWindow
                 /\ stor'.totalChunks = stor.totalChunks
                 /\ stor'.uploadsCompleted = stor.uploadsCompleted
                 /\ stor'.uploadsFailed = stor.uploadsFailed
                 /\ stor'.isUploading = stor.isUploading
                 /\ stor'.inFlight = stor.inFlight ]_vars

\* processAudioChunk was called twice after cleanup(), which had found a
\* frame in the window
FramesAfterCleanup ==
  /\ stor.state = "closed"
  /\ stor.late = 2
  /\ stor.totalChunks = 1
  /\ stor.slidingWindow = << >>

\* C32: validateAndConsumeTicket on a ticket that is stored and expired (the
\* clock reads its expires or later) or marked used returns no subject and
\* leaves the key deleted.
ExpiredTicketRefused ==
  [][ \A t \in TicketIds :
        ( /\ AuthMemory(1, t)
          /\ store[t].present
          /\ (now >= store[t].expires \/ store[t].used) )
        => /\ consumed'[t] = consumed[t]
           /\ ~sess'[1].isAuthenticated
           /\ ~store'[t].present ]_vars

\* C33: the list of segments handed to an ASR call, at vad end and at
\* cache_asr_trigger, is at every later moment the list it was at the
\* dispatch, whatever messages are handled while the call is in flight.
SnapshotIndependence ==
  \A k \in DOMAIN asrRun.subs :
    asrRun.subs[k].audioDataChunks = asrRun.subs[k].call.chunks

\* a prefetch call and a final call are both in flight, and since the final
\* dispatch a vad start and a further chunk have changed the cache
MessagesWhileAsrInFlight ==
  /\ Len(asrRun.subs) = 2
  /\ asrRun.subs[1].call.is_prefetch /\ asrRun.subs[1].pc # "done"
  /\ ~asrRun.subs[2].call.is_prefetch /\ asrRun.subs[2].pc # "done"
  /\ asrRun.ctx.isCaching
  /\ asrRun.ctx.speechAudioCache # << >>
  /\ asrRun.msgs = 4

\* C34: a connection never has more than one archiver created for it, and
\* never an active archiver that its closure no longer refers to (one that
\* the close listener cannot shut down).
OneArchiverPerConnection ==
  \A s \in Conns : archiver[s].created <= 1 /\ archiver[s].orphaned = 0

\* C35: while the context is caching, speechStartTimeMs is at most
\* globalTimeMs, whatever vad_offset_ms came with the vad start.
SpeechStartNotAhead ==
  asrRun.ctx.isCaching => asrRun.ctx.speechStartTimeMs <= asrRun.ctx.globalTimeMs

\* C36: every transcription_error sent for an ASR call carries is_prefetch,
\* equal to the flag the call was dispatched with.
ErrorsCarryPrefetchFlag ==
  \A k \in DOMAIN asrRun.out :
    asrRun.out[k].type = "transcription_error"
    => asrRun.out[k].is_prefetch = BoolText(asrRun.subs[asrRun.out[k].of].call.is_prefetch)

\* C37: every archive upload writes the object-store key
\* audio-sessions/session_{sessionId}_original_{chunkIndex}.wav with
\* chunkIndex = floor(now_ms / uploadIntervalMs), whatever the random draws
ArchiveKeyNamesSessionAndInterval ==
  \A k \in DOMAIN stor.puts : \A sr \in RandomTokens, fr \in RandomTokens :
    uploadFilePath(stor, stor.puts[k], sr, fr)
      = "audio-sessions/session_" \o generateSessionId(stor.startTime, sr)
          \o "_original_"
          \o toString(stor.puts[k].fileIdAt \div UPLOAD_INTERVAL_MS, 10) \o ".wav"

\* C38: a connection the server has closed with code 1008 never afterwards
\* becomes authenticated: no step of its listener consumes a ticket, creates
\* an Archiver, sets isAuthenticated or sends auth_success, however the
\* authentication deadline interleaves with a Consume in flight
NoAuthenticationAfterPolicyClose ==
  [][\A s \in Conns :
       (\E i \in DOMAIN closes[s] : closes[s][i].code = POLICY_VIOLATION)
       => /\ sess'[s].isAuthenticated = sess[s].isAuthenticated
          /\ archiver'[s].created = archiver[s].created
          /\ handler'[s] # handler[s] => consumed' = consumed
          /\ \/ sent'[s] = sent[s]
             \/ sent'[s][Len(sent'[s])].type # "auth_success"]_vars

\* C39: the reply {error: "Failed to parse message as JSON"} is sent only for
\* frames that are not valid JSON: a connection has received at least as many
\* frames that JSON.parse rejects as it has sent such replies
ParseErrorOnlyForInvalidJson ==
  \A s \in Conns :
    Cardinality({i \in DOMAIN sent[s] : sent[s][i] = ParseError})
      <= Cardinality({k \in DOMAIN handler[s] : handler[s][k].branch = "catch"})

\* C40: the speechStartTimeMs and speechEndTimeMs of every transcription_result
\* and debug_audio frame, and the is_prefetch of every transcription_result,
\* are those of the submission the frame belongs to, as fixed when it was
\* dispatched, whatever the context holds when the answer arrives
ResultCorrelation ==
  \A k \in DOMAIN asrRun.out :
    LET f == asrRun.out[k]
        call == asrRun.subs[f.of].call
    IN /\ f.type \in {"transcription_result", "debug_audio"}
          => /\ f.speechStartTimeMs = call.speechStartTimeMs
             /\ f.speechEndTimeMs = call.speechEndTimeMs
       /\ f.type = "transcription_result" => f.is_prefetch = BoolText(call.is_prefetch)

\* C40 witness: the prefetch and the final call of one utterance overlap, a
\* later vad start has moved the speech start of the context, and then the
\* final result arrives before the prefetch result
ResultsAfterLaterSegment ==
  \E j \in DOMAIN asrRun.out, k \in DOMAIN asrRun.out :
    /\ k < j
    /\ asrRun.out[j].type = "transcription_result" /\ asrRun.out[j].is_prefetch = "true"
    /\ asrRun.out[k].type = "transcription_result" /\ asrRun.out[k].is_prefetch = "false"
    /\ asrRun.out[j].at = MaxAsrMsgs /\ asrRun.out[k].at = MaxAsrMsgs
    /\ asrRun.ctx.isCaching
    /\ asrRun.ctx.speechStartTimeMs # asrRun.subs[asrRun.out[j].of].call.speechStartTimeMs
    /\ asrRun.ctx.speechStartTimeMs # asrRun.subs[asrRun.out[k].of].call.speechStartTimeMs

====
